---- MODULE Spec2Model ----
(***************************************************************************)
(* SmartShift: the sick-call coverage workflow (routes/sickcalls.ts), the  *)
(* matching engine (services/matching), the notification service           *)
(* (services/notifications.ts) and the shift edit route (routes/shifts.ts) *)
(* as a state machine.  Every `await` of a handler is one step, so that    *)
(* requests and the background coverage process interleave the way the     *)
(* single-threaded event loop lets them.                                   *)
(***************************************************************************)
EXTENDS Integers, Sequences, FiniteSets, TLC

(***************************************************************************)
(* Bounds of the model.                                                    *)
(***************************************************************************)
\* HTTP requests started in one behaviour
MaxRequests == 3
\* HTTP requests in flight at the same time
MaxInFlight == 2
\* sick calls created in one behaviour
MaxSickCalls == 2
\* notifications the transport fails to send in one behaviour
MaxFailures == 1
\* length up to which every text over the alphabet is classified
MaxTextLen == 3
\* calls of sendSMS from outside the routes in one behaviour
MaxSends == 2

(***************************************************************************)
(* Program constants.                                                      *)
(***************************************************************************)
\* startShiftCoverageProcess asks for the top 5 candidates
TopCount == 5
\* DEFAULT_RULES.overtimeThreshold
OvertimeThreshold == 40
BaseScore == 1000
AvailableBonus == 500
WorkingPenalty == 1000
NoOvertimeBonus == 300
OvertimePenalty == 200
SeniorityFactor == 10
FairnessBase == 100
FairnessStep == 20

NoUser == "none"
NoShift == "none"

(***************************************************************************)
(* The stored users.  Registration requires a phone number, so every user  *)
(* has one; seniority 0 stands for a null seniority.  H and N belong to a  *)
(* second organization.                                                    *)
(***************************************************************************)
UserIds == {"A", "B", "C", "D", "E", "F", "G", "M", "H", "N"}

Users ==
  [u \in UserIds |->
     CASE u = "A" -> [role |-> "STAFF", organizationId |-> "org1", active |-> TRUE, seniority |-> 10]
       [] u = "B" -> [role |-> "STAFF", organizationId |-> "org1", active |-> TRUE, seniority |-> 8]
       [] u = "C" -> [role |-> "STAFF", organizationId |-> "org1", active |-> TRUE, seniority |-> 6]
       [] u = "D" -> [role |-> "STAFF", organizationId |-> "org1", active |-> TRUE, seniority |-> 5]
       [] u = "E" -> [role |-> "STAFF", organizationId |-> "org1", active |-> TRUE, seniority |-> 3]
       [] u = "F" -> [role |-> "STAFF", organizationId |-> "org1", active |-> TRUE, seniority |-> 0]
       [] u = "G" -> [role |-> "STAFF", organizationId |-> "org1", active |-> TRUE, seniority |-> 5]
       [] u = "H" -> [role |-> "STAFF", organizationId |-> "org2", active |-> TRUE, seniority |-> 4]
       [] u = "N" -> [role |-> "MANAGER", organizationId |-> "org2", active |-> TRUE, seniority |-> 0]
       [] OTHER   -> [role |-> "MANAGER", organizationId |-> "org1", active |-> TRUE, seniority |-> 0]]

(***************************************************************************)
(* The stored shifts: S1 is the shift the sick calls are about, S2 a shift *)
(* of C on the same date, S3..S8 one more shift for each other member of   *)
(* staff.  Dates are day numbers (day 0 is a Sunday), times are minutes of  *)
(* the day.                                                                *)
(***************************************************************************)
ShiftIds == {"S1", "S2", "S3", "S4", "S5", "S6", "S7", "S8"}
\* a shift id no stored shift has
UnknownShift == "S9"

\* the date of S1 and S2
Today == 10
\* a date in the week after
NextWeek == 17

ShiftStart(s) == IF s = "S1" THEN 7 * 60 ELSE 15 * 60
ShiftEnd(s) == IF s = "S1" THEN 15 * 60 ELSE 23 * 60
ShiftOrg(s) == "org1"

\* who is assigned to each shift when the behaviour starts
FirstAssignee(s) ==
  CASE s = "S1" -> "A" [] s = "S2" -> "C" [] s = "S3" -> "A" [] s = "S4" -> "B"
    [] s = "S5" -> "D" [] s = "S6" -> "E" [] s = "S7" -> "F" [] OTHER -> "G"

\* an ordinary day: only A and C work on the date of S1
NormalDay ==
  [s \in ShiftIds |-> [status |-> "SCHEDULED", assignedToId |-> FirstAssignee(s),
                       date |-> IF s \in {"S1", "S2"} THEN Today ELSE NextWeek,
                       startTime |-> ShiftStart(s), endTime |-> ShiftEnd(s)]]

\* a day on which every member of staff has another shift
BusyDay ==
  [s \in ShiftIds |-> [status |-> "SCHEDULED", assignedToId |-> FirstAssignee(s),
                       date |-> Today,
                       startTime |-> ShiftStart(s), endTime |-> ShiftEnd(s)]]

ShiftStatuses == {"SCHEDULED", "SICK_CALL", "COVERED", "UNFILLED", "CANCELLED"}
SickCallStatuses == {"PENDING", "NOTIFYING", "COVERED", "UNFILLED", "CANCELLED"}

(***************************************************************************)
(* Dates.                                                                  *)
(***************************************************************************)
\* date-fns startOfWeek/endOfWeek: the Sunday-to-Saturday week of a day
WeekOf(d) == d \div 7
\* date-fns differenceInHours: the full hours between two times, the
\* fraction dropped (rounding method trunc)
differenceInHours(end, start) ==
  IF end >= start THEN (end - start) \div 60 ELSE 0 - ((start - end) \div 60)

(***************************************************************************)
(* NotificationService.parseResponse.  A text is a sequence of characters. *)
(***************************************************************************)
Lower == <<"a","b","c","d","e","f","g","h","i","j","k","l","m",
           "n","o","p","q","r","s","t","u","v","w","x","y","z">>
Upper == <<"A","B","C","D","E","F","G","H","I","J","K","L","M",
           "N","O","P","Q","R","S","T","U","V","W","X","Y","Z">>

toUpperChar(c) ==
  IF \E i \in 1..26 : Lower[i] = c
  THEN Upper[CHOOSE i \in 1..26 : Lower[i] = c]
  ELSE c

toUpperCase(t) == [i \in 1..Len(t) |-> toUpperChar(t[i])]

IsSpace(c) == c \in {" ", "\t", "\n"}

RECURSIVE trimStart(_)
trimStart(t) ==
  IF t # <<>> /\ IsSpace(Head(t)) THEN trimStart(Tail(t)) ELSE t

RECURSIVE trimEnd(_)
trimEnd(t) ==
  IF t # <<>> /\ IsSpace(t[Len(t)]) THEN trimEnd(SubSeq(t, 1, Len(t) - 1)) ELSE t

trim(t) == trimEnd(trimStart(t))

AcceptWords == {<<"Y","E","S">>, <<"Y">>, <<"A","C","C","E","P","T">>, <<"1">>, <<"O","K">>}
DeclineWords == {<<"N","O">>, <<"N">>, <<"D","E","C","L","I","N","E">>, <<"2">>, <<"N","O","P","E">>}

\* parseResponse without the trim
parseResponseNoTrim(responseText) ==
  LET normalized == toUpperCase(responseText)
  IN  IF normalized \in AcceptWords THEN "ACCEPT"
      ELSE IF normalized \in DeclineWords THEN "DECLINE"
      ELSE "null"

parseResponse(responseText) ==
  LET normalized == toUpperCase(trim(responseText))
  IN  IF normalized \in AcceptWords THEN "ACCEPT"
      ELSE IF normalized \in DeclineWords THEN "DECLINE"
      ELSE "null"


(***************************************************************************)
(* The record store (Prisma), the events published to the organization's   *)
(* dashboards (socket.io), the HTTP requests and the background coverage   *)
(* processes scheduled with setImmediate.                                  *)
(***************************************************************************)
VARIABLES
  shifts,         \* ShiftIds -> [status, assignedToId, date, startTime, endTime]
  sickCalls,      \* sequence of SickCall rows; the id of a row is its index
  responses,      \* sequence of ShiftResponse rows
  notifications,  \* sequence of Notification rows; the id of a row is its index
  auditLog,       \* sequence of AuditLog rows
  events,         \* sequence of emitted events, in emission order
  reqs,           \* slot -> the HTTP request being handled in it
  last,           \* the request answered last, with its HTTP status
  started,        \* number of requests that have arrived
  tasks,          \* sick call id -> its background coverage process
  clock,          \* number of timestamps taken (new Date())
  call,           \* the last call of a MatchingEngine method made from outside
                  \* the routes, with what it returned
  send            \* the call of NotificationService.sendSMS made from outside the
                  \* routes: in progress, or the last one with what it returned

store == <<shifts, sickCalls, responses, notifications, auditLog>>
vars == <<shifts, sickCalls, responses, notifications, auditLog, events, reqs, last, started,
          tasks, clock, call, send>>

SickCallIds == 1..MaxSickCalls

(***************************************************************************)
(* MatchingEngine.findCandidates and getTopCandidates.                     *)
(***************************************************************************)
DefaultRules ==
  [prioritizeAvailability |-> TRUE, avoidOvertime |-> TRUE, useSeniority |-> TRUE,
   useFairness |-> TRUE, overtimeThreshold |-> OvertimeThreshold]

\* prisma.user.findMany: the active staff of the organization
ActiveStaff(organizationId) ==
  {u \in UserIds : /\ Users[u].organizationId = organizationId
                   /\ Users[u].role = "STAFF"
                   /\ Users[u].active}

\* orderBy seniority desc: PostgreSQL sorts nulls first when descending and
\* leaves the order of equal keys open
SeniorityKey(u) == IF Users[u].seniority = 0 THEN 1000000 ELSE Users[u].seniority

RECURSIVE StaffOrders(_)
StaffOrders(S) ==
  IF S = {} THEN {<<>>}
  ELSE UNION {{<<m>> \o rest : rest \in StaffOrders(S \ {m})} :
                m \in {u \in S : \A v \in S : SeniorityKey(u) >= SeniorityKey(v)}}

\* weeklyShifts that takes SCHEDULED shifts only
weeklyShiftsScheduledOnly(date, organizationId) ==
  LET ids == {s \in ShiftIds : /\ ShiftOrg(s) = organizationId
                               /\ WeekOf(shifts[s].date) = WeekOf(date)
                               /\ shifts[s].status \in {"SCHEDULED"}}
  IN  [s \in ids |-> shifts[s]]

\* prisma.shift.findMany: the organization's SCHEDULED and COVERED shifts of
\* the week of `date`, as shift id -> the row read
weeklyShifts(date, organizationId) ==
  LET ids == {s \in ShiftIds : /\ ShiftOrg(s) = organizationId
                               /\ WeekOf(shifts[s].date) = WeekOf(date)
                               /\ shifts[s].status \in {"SCHEDULED", "COVERED"}}
  IN  [s \in ids |-> shifts[s]]

\* organization of the sick call a response belongs to; id 0 is a sick call
\* of org1 that was closed before the behaviour starts
SickCallOrg(id) == IF id = 0 THEN "org1" ELSE sickCalls[id].organizationId

\* prisma.shiftResponse.findMany: accepted responses of the last 30 days
recentPickups(organizationId) ==
  {i \in 1..Len(responses) : /\ responses[i].responseType = "ACCEPT"
                             /\ SickCallOrg(responses[i].sickCallId) = organizationId}

RECURSIVE SumHours(_, _)
SumHours(week, ids) ==
  IF ids = {} THEN 0
  ELSE LET s == CHOOSE x \in ids : TRUE
       IN  differenceInHours(week[s].endTime, week[s].startTime) + SumHours(week, ids \ {s})

\* prisma.shift.findUnique: the row of the shift to cover, with its id
ShiftRead(shiftId) ==
  [id |-> shiftId, date |-> shifts[shiftId].date,
   startTime |-> shifts[shiftId].startTime, endTime |-> shifts[shiftId].endTime]

\* `shift` is the row of the shift to cover, with its id
isWorking(week, shift, staff) ==
  \E s \in DOMAIN week : /\ week[s].assignedToId = staff
                         /\ week[s].date = shift.date
                         /\ s # shift.id

hoursThisWeek(week, staff) ==
  SumHours(week, {s \in DOMAIN week : week[s].assignedToId = staff})

Max(a, b) == IF a >= b THEN a ELSE b

\* OvertimeScore without the penalty
OvertimeScoreNoPenalty(willBeOvertime) ==
  IF ~willBeOvertime THEN NoOvertimeBonus ELSE 0

OvertimeScore(willBeOvertime) ==
  IF ~willBeOvertime THEN NoOvertimeBonus ELSE 0 - OvertimePenalty

Score(rules, working, willBeOvertime, seniority, recentPickupCount) ==
  BaseScore
  + (IF ~working THEN AvailableBonus ELSE 0 - WorkingPenalty)
  + (IF rules.avoidOvertime THEN OvertimeScore(willBeOvertime) ELSE 0)
  + (IF rules.useSeniority /\ seniority # 0 THEN seniority * SeniorityFactor ELSE 0)
  + (IF rules.useFairness THEN Max(0, FairnessBase - recentPickupCount * FairnessStep) ELSE 0)

\* the candidate built for one staff member (the loop body)
Candidate(rules, week, pickups, shift, staff) ==
  LET working == isWorking(week, shift, staff)
      hours == hoursThisWeek(week, staff)
      shiftHours == differenceInHours(shift.endTime, shift.startTime)
      totalHoursWithShift == hours + shiftHours
      willBeOvertime == totalHoursWithShift > rules.overtimeThreshold
      recentPickupCount == Cardinality({i \in pickups : responses[i].staffId = staff})
  IN  [userId |-> staff,
       score |-> Score(rules, working, willBeOvertime, Users[staff].seniority, recentPickupCount),
       rank |-> 0,
       isAvailable |-> ~working,
       willBeOvertime |-> willBeOvertime,
       hoursWorkedThisWeek |-> hours]

\* the loop over allStaff, skipping unavailable staff when the rule says so
RECURSIVE BuildCandidates(_, _, _, _, _)
BuildCandidates(rules, week, pickups, shift, allStaff) ==
  IF allStaff = <<>> THEN <<>>
  ELSE LET staff == Head(allStaff)
           rest == BuildCandidates(rules, week, pickups, shift, Tail(allStaff))
       IN  IF isWorking(week, shift, staff) /\ rules.prioritizeAvailability
           THEN rest
           ELSE <<Candidate(rules, week, pickups, shift, staff)>> \o rest

\* Array.prototype.sort with (a, b) => b.score - a.score: stable, descending
RECURSIVE InsertByScore(_, _)
InsertByScore(c, sorted) ==
  IF sorted = <<>> THEN <<c>>
  ELSE IF Head(sorted).score >= c.score
       THEN <<Head(sorted)>> \o InsertByScore(c, Tail(sorted))
       ELSE <<c>> \o sorted

RECURSIVE SortByScore(_)
SortByScore(cs) ==
  IF cs = <<>> THEN <<>>
  ELSE InsertByScore(cs[Len(cs)], SortByScore(SubSeq(cs, 1, Len(cs) - 1)))

AssignRanks(cs) == [i \in 1..Len(cs) |-> [cs[i] EXCEPT !.rank = i]]

\* findCandidates once the rows are read: `shift` the shift to cover,
\* `allStaff` in retrieval order, `week` the weekly shifts, `pickups` the
\* recent accepted responses
findCandidates(rules, week, pickups, shift, allStaff) ==
  AssignRanks(SortByScore(BuildCandidates(rules, week, pickups, shift, allStaff)))

RECURSIVE SelectAvailable(_)
SelectAvailable(cs) ==
  IF cs = <<>> THEN <<>>
  ELSE IF Head(cs).isAvailable THEN <<Head(cs)>> \o SelectAvailable(Tail(cs))
       ELSE SelectAvailable(Tail(cs))

slice(cs, count) == SubSeq(cs, 1, IF Len(cs) < count THEN Len(cs) ELSE count)

\* getTopCandidates without the slice
getTopCandidatesAll(allCandidates, count) == SelectAvailable(allCandidates)

getTopCandidates(allCandidates, count) == slice(SelectAvailable(allCandidates), count)

\* { ...DEFAULT_RULES, ...rules } with rules = { prioritizeAvailability: false }
NoAvailabilityRule == [DefaultRules EXCEPT !.prioritizeAvailability = FALSE]

\* findCandidates on the stored rows, all of them read at once, the staff
\* retrieved in the order allStaff
findCandidatesNow(shiftId, organizationId, rules, allStaff) ==
  findCandidates(rules, weeklyShifts(shifts[shiftId].date, organizationId),
                 recentPickups(organizationId), ShiftRead(shiftId), allStaff)


(***************************************************************************)
(* Inputs of the requests.                                                 *)
(***************************************************************************)
Submitters == {"A", "B"}
SubmitShifts == {"S1", UnknownShift}
Responders == {"B", "D"}
ResponseTexts == {<<"Y","E","S">>, <<" ","n","o"," ">>, <<"m","a","y","b","e">>}
AssignCallers == {"M", "B"}
AssignTargets == {"D"}
EditCallers == {"M"}
EditShifts == {"S1", "S2"}
\* "undefined" stands for a field the request body leaves out
EditStatuses == {"undefined", "COVERED"}
EditAssignees == {"undefined", "A"}
CandidatesCallers == {"M", "N", "B"}
\* arguments of the calls of the MatchingEngine methods
RankShifts == {"S1", UnknownShift}
RankOrganizations == {"org1", "org2"}
RuleSets == {DefaultRules, NoAvailabilityRule}
RankCounts == {1, TopCount}
\* recipients of the calls of sendSMS: a user, an id no user has, a user row
\* without a phone number
UnknownUser == "X"
NoPhoneUser == "P"
SendRecipients == {"A", UnknownUser, NoPhoneUser}
\* callers and targets from both organizations
TenantResponders == {"B", "H"}
TenantManagers == {"M", "N"}
TenantTargets == {"D", "H"}

(***************************************************************************)
(* Rows and process records.                                               *)
(***************************************************************************)
NoShiftRead == [id |-> NoShift, date |-> 0, startTime |-> 0, endTime |-> 0]

NoTask == [pc |-> "none", shift |-> NoShiftRead, week |-> <<>>,
           candidates |-> <<>>, notificationId |-> 0]

Request(kind, pc, userId, shiftId, sickCallId, staffId, managerId, responseText, res) ==
  [kind |-> kind, pc |-> pc, userId |-> userId, shiftId |-> shiftId,
   sickCallId |-> sickCallId, staffId |-> staffId, managerId |-> managerId,
   responseText |-> responseText, res |-> res, notificationId |-> 0,
   shift |-> NoShiftRead, week |-> <<>>, candidates |-> <<>>]

Event(type, sickCallId, staffId, notificationId, candidates) ==
  [type |-> type, sickCallId |-> sickCallId, staffId |-> staffId,
   notificationId |-> notificationId, candidates |-> candidates]

Slots == 1..MaxInFlight

NoRequest == Request("none", "idle", NoUser, NoShift, 0, NoUser, NoUser, <<>>, 0)

FreeSlots == {r \in Slots : reqs[r].pc = "idle"}

CanStart == started < MaxRequests /\ FreeSlots # {}

\* a request arrives and goes on after its first read
Begin(request) ==
  /\ reqs' = [reqs EXCEPT ![CHOOSE r \in FreeSlots : \A q \in FreeSlots : r <= q] = request]
  /\ started' = started + 1
  /\ UNCHANGED last

\* a request arrives and is answered after its first read
Reject(request) ==
  /\ last' = request
  /\ started' = started + 1
  /\ UNCHANGED reqs

\* the request in slot r goes on to `pc`
Goto(r, pc) ==
  /\ reqs' = [reqs EXCEPT ![r].pc = pc]
  /\ UNCHANGED <<last, started>>

\* the request in slot r is answered with status `res`
Answer(r, res) ==
  /\ reqs' = [reqs EXCEPT ![r] = NoRequest]
  /\ last' = [reqs[r] EXCEPT !.pc = "done", !.res = res]
  /\ UNCHANGED started

\* no MatchingEngine method has been called from outside the routes
NoCall == [fn |-> "none", shiftId |-> NoShift, organizationId |-> "none",
           rules |-> DefaultRules, count |-> 0, error |-> "none", result |-> <<>>]

\* NotificationService.sendSMS has not been called from outside the routes;
\* `count` is the number of such calls, `result` the id returned or "null"
NoSend == [pc |-> "none", recipientId |-> NoUser, sickCallId |-> 0, notificationId |-> 0,
           result |-> "none", count |-> 0]

\* sick calls a running submit is still going to create
PendingCreates == {r \in Slots : reqs[r].pc = "s_create"}

Init ==
  /\ shifts \in {NormalDay, BusyDay}
  /\ sickCalls = <<>>
  /\ responses = <<[sickCallId |-> 0, staffId |-> "B", responseType |-> "ACCEPT"]>>
  /\ notifications = <<>>
  /\ auditLog = <<>>
  /\ events = <<>>
  /\ reqs = [r \in Slots |-> NoRequest]
  /\ last = NoRequest
  /\ started = 0
  /\ tasks = [i \in SickCallIds |-> NoTask]
  /\ clock = 0
  /\ call = NoCall
  /\ send = NoSend

(***************************************************************************)
(* POST /api/sickcalls/submit                                              *)
(***************************************************************************)
\* SubmitCheck without the test that the shift is assigned to the caller
SubmitCheckNoOwner(shiftId, staffId) ==
  IF shiftId \notin ShiftIds THEN 404
  ELSE IF shifts[shiftId].status = "SICK_CALL" THEN 400
  ELSE 0

\* the validation of the shift that was read; 0 lets the request go on
SubmitCheck(shiftId, staffId) ==
  IF shiftId \notin ShiftIds THEN 404
  ELSE IF shifts[shiftId].assignedToId # staffId THEN 403
  ELSE IF shifts[shiftId].status = "SICK_CALL" THEN 400
  ELSE 0

\* the request arrives and reads the shift
SubmitRead(staffId, shiftId) ==
  /\ CanStart
  /\ Len(sickCalls) + Cardinality(PendingCreates) < MaxSickCalls
  /\ LET code == SubmitCheck(shiftId, staffId)
     IN  IF code = 0
         THEN Begin(Request("submit", "s_create", staffId, shiftId, 0, NoUser, NoUser, <<>>, 0))
         ELSE Reject(Request("submit", "done", staffId, shiftId, 0, NoUser, NoUser, <<>>, code))
  /\ UNCHANGED <<shifts, sickCalls, responses, notifications, auditLog, events, tasks, clock>>
  /\ UNCHANGED <<call, send>>

\* SubmitCreate that already schedules the coverage process
SubmitCreateSchedules(r) ==
  /\ reqs[r].pc = "s_create"
  /\ sickCalls' = Append(sickCalls,
       [organizationId |-> Users[reqs[r].userId].organizationId,
        staffId |-> reqs[r].userId,
        shiftId |-> reqs[r].shiftId,
        status |-> "PENDING",
        coveredById |-> NoUser,
        coveredAt |-> 0])
  /\ reqs' = [reqs EXCEPT ![r].pc = "s_shift", ![r].sickCallId = Len(sickCalls) + 1]
  /\ tasks' = [tasks EXCEPT ![Len(sickCalls) + 1].pc = "scheduled"]
  /\ UNCHANGED <<last, started>>
  /\ UNCHANGED <<shifts, responses, notifications, auditLog, events, clock>>
  /\ UNCHANGED <<call, send>>

\* prisma.sickCall.create
SubmitCreate(r) ==
  /\ reqs[r].pc = "s_create"
  /\ sickCalls' = Append(sickCalls,
       [organizationId |-> Users[reqs[r].userId].organizationId,
        staffId |-> reqs[r].userId,
        shiftId |-> reqs[r].shiftId,
        status |-> "PENDING",
        coveredById |-> NoUser,
        coveredAt |-> 0])
  /\ reqs' = [reqs EXCEPT ![r].pc = "s_shift", ![r].sickCallId = Len(sickCalls) + 1]
  /\ UNCHANGED <<last, started>>
  /\ UNCHANGED <<shifts, responses, notifications, auditLog, events, tasks, clock>>
  /\ UNCHANGED <<call, send>>

\* prisma.shift.update
SubmitUpdateShift(r) ==
  /\ reqs[r].pc = "s_shift"
  /\ shifts' = [shifts EXCEPT ![reqs[r].shiftId].status = "SICK_CALL"]
  /\ Goto(r, "s_audit")
  /\ UNCHANGED <<sickCalls, responses, notifications, auditLog, events, tasks, clock>>
  /\ UNCHANGED <<call, send>>

\* prisma.auditLog.create, then the event, setImmediate and the 201 response
SubmitAudit(r) ==
  /\ reqs[r].pc = "s_audit"
  /\ auditLog' = Append(auditLog, [userId |-> reqs[r].userId,
                                   sickCallId |-> reqs[r].sickCallId,
                                   action |-> "SICK_CALL_SUBMITTED"])
  /\ events' = Append(events, Event("sick-call-submitted", reqs[r].sickCallId, NoUser, 0, <<>>))
  /\ tasks' = [tasks EXCEPT ![reqs[r].sickCallId].pc = "scheduled"]
  /\ Answer(r, 201)
  /\ UNCHANGED <<shifts, sickCalls, responses, notifications, clock>>
  /\ UNCHANGED <<call, send>>

(***************************************************************************)
(* NotificationService.sendSMS, in two steps: the record is created, then  *)
(* the transport has answered.                                             *)
(***************************************************************************)
\* prisma.notification.create (the recipient exists and has a phone number)
smsCreated(sickCallId, recipientId, kind) ==
  Append(notifications, [sickCallId |-> sickCallId, recipientId |-> recipientId,
                         status |-> "PENDING", kind |-> kind])

\* the transport succeeded: notification.update where id
smsSent(notificationId) ==
  [notifications EXCEPT ![notificationId].status = "SENT"]

\* the transport threw: notification.updateMany where sickCallId, recipientId, PENDING
smsFailed(sickCallId, recipientId) ==
  [n \in 1..Len(notifications) |->
     IF /\ notifications[n].sickCallId = sickCallId
        /\ notifications[n].recipientId = recipientId
        /\ notifications[n].status = "PENDING"
     THEN [notifications[n] EXCEPT !.status = "FAILED"]
     ELSE notifications[n]]

\* the transport may still fail (bound of the model)
MayFail == Cardinality({n \in 1..Len(notifications) : notifications[n].status = "FAILED"})
             < MaxFailures

\* smsEvents that publishes failed sends too
smsEventsAlways(ok, notificationId, sickCallId, recipientId) ==
  <<Event("notification-sent", sickCallId, recipientId, notificationId, <<>>)>>

smsEvents(ok, notificationId, sickCallId, recipientId) ==
  IF ok THEN <<Event("notification-sent", sickCallId, recipientId, notificationId, <<>>)>>
  ELSE <<>>

\* prisma.user.findUnique and the test !recipient || !recipient.phone
CanReach(recipientId) == recipientId \in UserIds

\* sendSMS is called: the recipient is read, then either the notification
\* record is created, or the throw is caught, updateMany runs and null is
\* returned
SendCreate(recipientId, sickCallId) ==
  /\ send.pc \in {"none", "done"}
  /\ send.count < MaxSends
  /\ sickCallId \in 1..Len(sickCalls)
  /\ IF CanReach(recipientId)
     THEN /\ notifications' = smsCreated(sickCallId, recipientId, "direct")
          /\ send' = [pc |-> "n_sent", recipientId |-> recipientId, sickCallId |-> sickCallId,
                      notificationId |-> Len(notifications) + 1, result |-> "none",
                      count |-> send.count + 1]
     ELSE /\ notifications' = smsFailed(sickCallId, recipientId)
          /\ send' = [pc |-> "done", recipientId |-> recipientId, sickCallId |-> sickCallId,
                      notificationId |-> 0, result |-> "null", count |-> send.count + 1]
  /\ UNCHANGED <<shifts, sickCalls, responses, auditLog, events, reqs, last, started, tasks,
                 clock, call>>

\* the transport has answered: update to SENT, the event and the id returned,
\* or the catch, updateMany and null returned
SendFinish(ok) ==
  /\ send.pc = "n_sent"
  /\ ok \/ MayFail
  /\ notifications' = IF ok THEN smsSent(send.notificationId)
                      ELSE smsFailed(send.sickCallId, send.recipientId)
  /\ events' = events \o smsEvents(ok, send.notificationId, send.sickCallId, send.recipientId)
  /\ send' = [send EXCEPT !.pc = "done",
                          !.result = IF ok THEN send.notificationId ELSE "null"]
  /\ UNCHANGED <<shifts, sickCalls, responses, auditLog, reqs, last, started, tasks, clock,
                 call>>

(***************************************************************************)
(* startShiftCoverageProcess, run by setImmediate after a submit.          *)
(***************************************************************************)
\* the callback runs: prisma.sickCall.findUnique (sick calls are never deleted,
\* so the row is found), then prisma.sickCall.update: NOTIFYING
CoverageNotifying(i) ==
  /\ tasks[i].pc = "scheduled"
  /\ i \in 1..Len(sickCalls)
  /\ sickCalls' = [sickCalls EXCEPT ![i].status = "NOTIFYING"]
  /\ tasks' = [tasks EXCEPT ![i].pc = "f_week"]
  /\ UNCHANGED <<shifts, responses, notifications, auditLog, events, reqs, last, started, clock>>
  /\ UNCHANGED <<call, send>>

\* findCandidates reads the shift, the staff and the shifts of the week
FindWeeklyShifts(i) ==
  /\ tasks[i].pc = "f_week"
  /\ tasks' = [tasks EXCEPT
       ![i].pc = "f_pickups",
       ![i].shift = ShiftRead(sickCalls[i].shiftId),
       ![i].week = weeklyShifts(shifts[sickCalls[i].shiftId].date, sickCalls[i].organizationId)]
  /\ UNCHANGED <<shifts, sickCalls, responses, notifications, auditLog, events, reqs, last, started, clock>>
  /\ UNCHANGED <<call, send>>

\* findCandidates reads the recent pickups and ranks; getTopCandidates selects
FindRecentPickups(i) ==
  /\ tasks[i].pc = "f_pickups"
  /\ \E allStaff \in StaffOrders(ActiveStaff(sickCalls[i].organizationId)) :
       LET allCandidates == findCandidates(DefaultRules, tasks[i].week,
                              recentPickups(sickCalls[i].organizationId),
                              tasks[i].shift, allStaff)
           candidates == getTopCandidates(allCandidates, TopCount)
       IN  tasks' = [tasks EXCEPT
             ![i].pc = IF Len(candidates) = 0 THEN "c_unfilled" ELSE "c_sms",
             ![i].candidates = candidates]
  /\ UNCHANGED <<shifts, sickCalls, responses, notifications, auditLog, events, reqs, last, started, clock>>
  /\ UNCHANGED <<call, send>>

\* CoverageUnfilled that emits the event and leaves the status alone
CoverageUnfilledKeepsStatus(i) ==
  /\ tasks[i].pc = "c_unfilled"
  /\ events' = Append(events, Event("sick-call-unfilled", i, NoUser, 0, <<>>))
  /\ tasks' = [tasks EXCEPT ![i].pc = "done"]
  /\ UNCHANGED <<shifts, sickCalls, responses, notifications, auditLog, reqs, last, started, clock>>
  /\ UNCHANGED <<call, send>>

\* no candidates: prisma.sickCall.update UNFILLED, then the event
CoverageUnfilled(i) ==
  /\ tasks[i].pc = "c_unfilled"
  /\ sickCalls' = [sickCalls EXCEPT ![i].status = "UNFILLED"]
  /\ events' = Append(events, Event("sick-call-unfilled", i, NoUser, 0, <<>>))
  /\ tasks' = [tasks EXCEPT ![i].pc = "done"]
  /\ UNCHANGED <<shifts, responses, notifications, auditLog, reqs, last, started, clock>>
  /\ UNCHANGED <<call, send>>

\* the recipient of the offer: candidates[0]
OfferRecipient(candidates) == candidates[1].userId

\* sendSMS to the first candidate: the notification record
CoverageSmsCreate(i) ==
  /\ tasks[i].pc = "c_sms"
  /\ notifications' = smsCreated(i, OfferRecipient(tasks[i].candidates), "offer")
  /\ tasks' = [tasks EXCEPT ![i].pc = "c_sent", ![i].notificationId = Len(notifications) + 1]
  /\ UNCHANGED <<shifts, sickCalls, responses, auditLog, events, reqs, last, started, clock>>
  /\ UNCHANGED <<call, send>>

\* CoverageSmsFinish that sends the offer again after a failed send
CoverageSmsFinishRetries(i, ok) ==
  /\ tasks[i].pc = "c_sent"
  /\ ok \/ MayFail
  /\ LET recipientId == OfferRecipient(tasks[i].candidates)
     IN  /\ notifications' = IF ok THEN smsSent(tasks[i].notificationId)
                             ELSE smsFailed(i, recipientId)
         /\ events' = IF ~ok THEN events
                      ELSE events \o smsEvents(ok, tasks[i].notificationId, i, recipientId)
                             \o <<Event("candidates-found", i, NoUser, 0, tasks[i].candidates)>>
  /\ tasks' = [tasks EXCEPT ![i].pc = IF ok THEN "done" ELSE "c_sms"]
  /\ UNCHANGED <<shifts, sickCalls, responses, auditLog, reqs, last, started, clock>>
  /\ UNCHANGED <<call, send>>

\* sendSMS returns (sent or failed), then the candidates-found event
CoverageSmsFinish(i, ok) ==
  /\ tasks[i].pc = "c_sent"
  /\ ok \/ MayFail
  /\ LET recipientId == OfferRecipient(tasks[i].candidates)
     IN  /\ notifications' = IF ok THEN smsSent(tasks[i].notificationId)
                             ELSE smsFailed(i, recipientId)
         /\ events' = events \o smsEvents(ok, tasks[i].notificationId, i, recipientId)
                        \o <<Event("candidates-found", i, NoUser, 0, tasks[i].candidates)>>
  /\ tasks' = [tasks EXCEPT ![i].pc = "done"]
  /\ UNCHANGED <<shifts, sickCalls, responses, auditLog, reqs, last, started, clock>>
  /\ UNCHANGED <<call, send>>


(***************************************************************************)
(* assignShift, called by the respond route and by the assign route.       *)
(***************************************************************************)
\* prisma.sickCall.update: COVERED, coveredById, coveredAt
AssignUpdateSickCall(r) ==
  /\ reqs[r].pc = "a_sickcall"
  /\ clock' = clock + 1
  /\ sickCalls' = [sickCalls EXCEPT ![reqs[r].sickCallId] =
       [@ EXCEPT !.status = "COVERED", !.coveredById = reqs[r].staffId, !.coveredAt = clock + 1]]
  /\ Goto(r, "a_shift")
  /\ UNCHANGED <<shifts, responses, notifications, auditLog, events, tasks>>
  /\ UNCHANGED <<call, send>>

\* prisma.shift.update: COVERED, assignedToId
AssignUpdateShift(r) ==
  /\ reqs[r].pc = "a_shift"
  /\ shifts' = [shifts EXCEPT ![sickCalls[reqs[r].sickCallId].shiftId] =
       [@ EXCEPT !.status = "COVERED", !.assignedToId = reqs[r].staffId]]
  /\ Goto(r, "a_audit")
  /\ UNCHANGED <<sickCalls, responses, notifications, auditLog, events, tasks, clock>>
  /\ UNCHANGED <<call, send>>

\* AuditAction that does not tell a manager's assignment from an acceptance
AuditActionAccepted(managerId) == "SHIFT_ACCEPTED"

AuditAction(managerId) == IF managerId # NoUser THEN "MANUAL_ASSIGNMENT" ELSE "SHIFT_ACCEPTED"

\* prisma.auditLog.create
AssignAudit(r) ==
  /\ reqs[r].pc = "a_audit"
  /\ auditLog' = Append(auditLog,
       [userId |-> IF reqs[r].managerId # NoUser THEN reqs[r].managerId ELSE reqs[r].staffId,
        sickCallId |-> reqs[r].sickCallId,
        action |-> AuditAction(reqs[r].managerId)])
  /\ Goto(r, "a_sms")
  /\ UNCHANGED <<shifts, sickCalls, responses, notifications, events, tasks, clock>>
  /\ UNCHANGED <<call, send>>

\* sendSMS to the assigned staff: the notification record
AssignSmsCreate(r) ==
  /\ reqs[r].pc = "a_sms"
  /\ notifications' = smsCreated(reqs[r].sickCallId, reqs[r].staffId, "confirm")
  /\ reqs' = [reqs EXCEPT ![r].pc = "a_sent", ![r].notificationId = Len(notifications) + 1]
  /\ UNCHANGED <<last, started>>
  /\ UNCHANGED <<shifts, sickCalls, responses, auditLog, events, tasks, clock>>
  /\ UNCHANGED <<call, send>>

\* AssignSmsFinish in which a failed send fails the request
AssignSmsFinishThrows(r, ok) ==
  /\ reqs[r].pc = "a_sent"
  /\ ok \/ MayFail
  /\ notifications' = IF ok THEN smsSent(reqs[r].notificationId)
                      ELSE smsFailed(reqs[r].sickCallId, reqs[r].staffId)
  /\ events' = IF ~ok THEN events
               ELSE events
                    \o smsEvents(ok, reqs[r].notificationId, reqs[r].sickCallId, reqs[r].staffId)
                    \o <<Event("shift-covered", reqs[r].sickCallId, reqs[r].staffId, 0, <<>>)>>
                    \o (IF reqs[r].kind = "respond"
                        THEN <<Event("shift-response", reqs[r].sickCallId, reqs[r].userId, 0,
                                     <<>>)>>
                        ELSE <<>>)
  /\ Answer(r, IF ok THEN 200 ELSE 500)
  /\ UNCHANGED <<shifts, sickCalls, responses, auditLog, tasks, clock>>
  /\ UNCHANGED <<call, send>>

\* sendSMS returns, then the shift-covered event; the respond route goes on
\* with its shift-response event; the route answers 200
AssignSmsFinish(r, ok) ==
  /\ reqs[r].pc = "a_sent"
  /\ ok \/ MayFail
  /\ notifications' = IF ok THEN smsSent(reqs[r].notificationId)
                      ELSE smsFailed(reqs[r].sickCallId, reqs[r].staffId)
  /\ events' = events
       \o smsEvents(ok, reqs[r].notificationId, reqs[r].sickCallId, reqs[r].staffId)
       \o <<Event("shift-covered", reqs[r].sickCallId, reqs[r].staffId, 0, <<>>)>>
       \o (IF reqs[r].kind = "respond"
           THEN <<Event("shift-response", reqs[r].sickCallId, reqs[r].userId, 0, <<>>)>>
           ELSE <<>>)
  /\ Answer(r, 200)
  /\ UNCHANGED <<shifts, sickCalls, responses, auditLog, tasks, clock>>
  /\ UNCHANGED <<call, send>>

(***************************************************************************)
(* POST /api/sickcalls/:id/respond                                         *)
(***************************************************************************)
\* RespondCheck without the test that the sick call is already covered
RespondCheckNoCovered(sickCallId, responseText) ==
  IF sickCallId \notin 1..Len(sickCalls) THEN 404
  ELSE IF parseResponse(responseText) = "null" THEN 400
  ELSE 0

\* the checks on the sick call that was read and on the text; 0 lets the
\* request go on
RespondCheck(sickCallId, responseText) ==
  IF sickCallId \notin 1..Len(sickCalls) THEN 404
  ELSE IF sickCalls[sickCallId].status = "COVERED" THEN 400
  ELSE IF parseResponse(responseText) = "null" THEN 400
  ELSE 0

\* the request arrives and reads the sick call
RespondRead(staffId, sickCallId, responseText) ==
  /\ CanStart
  /\ LET code == RespondCheck(sickCallId, responseText)
     IN  IF code = 0
         THEN Begin(Request("respond", "r_create", staffId, NoShift, sickCallId, staffId,
                            NoUser, responseText, 0))
         ELSE Reject(Request("respond", "done", staffId, NoShift, sickCallId, staffId,
                             NoUser, responseText, code))
  /\ UNCHANGED <<shifts, sickCalls, responses, notifications, auditLog, events, tasks, clock>>
  /\ UNCHANGED <<call, send>>

\* RespondCreate that starts the coverage process again after a decline
RespondCreateAdvances(r) ==
  /\ reqs[r].pc = "r_create"
  /\ LET responseType == parseResponse(reqs[r].responseText)
     IN  /\ responses' = Append(responses, [sickCallId |-> reqs[r].sickCallId,
                                            staffId |-> reqs[r].userId,
                                            responseType |-> responseType])
         /\ IF responseType = "ACCEPT"
            THEN /\ Goto(r, "a_sickcall")
                 /\ UNCHANGED <<events, tasks>>
            ELSE /\ Answer(r, 200)
                 /\ events' = Append(events, Event("shift-response", reqs[r].sickCallId,
                                                   reqs[r].userId, 0, <<>>))
                 /\ tasks' = [tasks EXCEPT ![reqs[r].sickCallId].pc = "scheduled"]
  /\ UNCHANGED <<shifts, sickCalls, notifications, auditLog, clock>>
  /\ UNCHANGED <<call, send>>

\* prisma.shiftResponse.create; a decline ends the request, an accept enters
\* assignShift, which reads the sick call
RespondCreate(r) ==
  /\ reqs[r].pc = "r_create"
  /\ LET responseType == parseResponse(reqs[r].responseText)
     IN  /\ responses' = Append(responses, [sickCallId |-> reqs[r].sickCallId,
                                            staffId |-> reqs[r].userId,
                                            responseType |-> responseType])
         /\ IF responseType = "ACCEPT"
            THEN /\ Goto(r, "a_sickcall")
                 /\ UNCHANGED events
            ELSE /\ Answer(r, 200)
                 /\ events' = Append(events, Event("shift-response", reqs[r].sickCallId,
                                                   reqs[r].userId, 0, <<>>))
  /\ UNCHANGED <<shifts, sickCalls, notifications, auditLog, tasks, clock>>
  /\ UNCHANGED <<call, send>>

(***************************************************************************)
(* POST /api/sickcalls/:id/assign                                          *)
(***************************************************************************)
\* authorize('MANAGER', 'ADMIN')
authorize(userId) == Users[userId].role \in {"MANAGER", "ADMIN"}

\* authorize, then assignShift's read of the sick call; 0 lets the request go on
AssignCheck(managerId, sickCallId) ==
  IF ~authorize(managerId) THEN 403
  ELSE IF sickCallId \notin 1..Len(sickCalls) THEN 500
  ELSE 0

\* the request arrives; assignShift reads the sick call
AssignRead(managerId, sickCallId, staffId) ==
  /\ CanStart
  /\ LET code == AssignCheck(managerId, sickCallId)
     IN  IF code = 0
         THEN Begin(Request("assign", "a_sickcall", managerId, NoShift, sickCallId, staffId,
                            managerId, <<>>, 0))
         ELSE Reject(Request("assign", "done", managerId, NoShift, sickCallId, staffId,
                             managerId, <<>>, code))
  /\ UNCHANGED <<shifts, sickCalls, responses, notifications, auditLog, events, tasks, clock>>
  /\ UNCHANGED <<call, send>>

(***************************************************************************)
(* PUT /api/shifts/:id                                                     *)
(***************************************************************************)
\* prisma.shift.update with the fields the body gives
EditedShift(shift, status, assignedToId) ==
  [shift EXCEPT
     !.status = IF status # "undefined" THEN status ELSE @,
     !.assignedToId = IF assignedToId # "undefined" THEN assignedToId ELSE @]

EditShift(userId, shiftId, status, assignedToId) ==
  /\ CanStart
  /\ IF authorize(userId)
     THEN /\ shifts' = [shifts EXCEPT ![shiftId] = EditedShift(@, status, assignedToId)]
          /\ Reject(Request("edit", "done", userId, shiftId, 0, assignedToId, NoUser, <<>>, 200))
     ELSE /\ UNCHANGED shifts
          /\ Reject(Request("edit", "done", userId, shiftId, 0, assignedToId, NoUser, <<>>, 403))
  /\ UNCHANGED <<sickCalls, responses, notifications, auditLog, events, tasks, clock>>
  /\ UNCHANGED <<call, send>>

(***************************************************************************)
(* GET /api/sickcalls/:id/candidates                                       *)
(***************************************************************************)
\* authorize, then the read of the sick call; 0 lets the request go on
GetCandidatesCheck(userId, sickCallId) ==
  IF ~authorize(userId) THEN 403
  ELSE IF sickCallId \notin 1..Len(sickCalls) THEN 404
  ELSE 0

\* the request arrives and reads the sick call; findCandidates reads the
\* shift, the staff of the caller's organization and the shifts of the week
GetCandidatesRead(userId, sickCallId) ==
  /\ CanStart
  /\ LET code == GetCandidatesCheck(userId, sickCallId)
         request == Request("candidates", "g_pickups", userId, NoShift, sickCallId, NoUser,
                            NoUser, <<>>, code)
     IN  IF code = 0
         THEN Begin([request EXCEPT
                !.shiftId = sickCalls[sickCallId].shiftId,
                !.shift = ShiftRead(sickCalls[sickCallId].shiftId),
                !.week = weeklyShifts(shifts[sickCalls[sickCallId].shiftId].date,
                                      Users[userId].organizationId)])
         ELSE Reject([request EXCEPT !.pc = "done"])
  /\ UNCHANGED <<shifts, sickCalls, responses, notifications, auditLog, events, tasks, clock>>
  /\ UNCHANGED <<call, send>>

\* GetCandidatesAnswer that also publishes the ranking
GetCandidatesAnswerEmits(r) ==
  /\ reqs[r].pc = "g_pickups"
  /\ LET organizationId == Users[reqs[r].userId].organizationId
     IN  \E allStaff \in StaffOrders(ActiveStaff(organizationId)) :
           LET candidates == findCandidates(DefaultRules, reqs[r].week,
                                            recentPickups(organizationId), reqs[r].shift,
                                            allStaff)
           IN  /\ last' = [reqs[r] EXCEPT !.pc = "done", !.res = 200,
                                          !.candidates = candidates]
               /\ events' = Append(events, Event("candidates-found", reqs[r].sickCallId,
                                                 NoUser, 0, candidates))
  /\ reqs' = [reqs EXCEPT ![r] = NoRequest]
  /\ UNCHANGED <<started, shifts, sickCalls, responses, notifications, auditLog, tasks, clock>>
  /\ UNCHANGED <<call, send>>

\* findCandidates reads the recent pickups and ranks; the route answers 200
\* with the candidates
GetCandidatesAnswer(r) ==
  /\ reqs[r].pc = "g_pickups"
  /\ LET organizationId == Users[reqs[r].userId].organizationId
     IN  \E allStaff \in StaffOrders(ActiveStaff(organizationId)) :
           last' = [reqs[r] EXCEPT
                      !.pc = "done", !.res = 200,
                      !.candidates = findCandidates(DefaultRules, reqs[r].week,
                                                    recentPickups(organizationId),
                                                    reqs[r].shift, allStaff)]
  /\ reqs' = [reqs EXCEPT ![r] = NoRequest]
  /\ UNCHANGED <<started, shifts, sickCalls, responses, notifications, auditLog, events, tasks,
                 clock>>
  /\ UNCHANGED <<call, send>>

(***************************************************************************)
(* The MatchingEngine methods called on their own.  No writer of the rows  *)
(* they read runs beside the calls, so a call is one step.                 *)
(***************************************************************************)
EngineCall(fn, shiftId, organizationId, rules, count, error, result) ==
  [fn |-> fn, shiftId |-> shiftId, organizationId |-> organizationId, rules |-> rules,
   count |-> count, error |-> error, result |-> result]

\* MatchingEngine.findCandidates(shiftId, organizationId, locationId, rules)
Rank(shiftId, organizationId, rules) ==
  /\ IF shiftId \notin ShiftIds
     THEN call' = EngineCall("findCandidates", shiftId, organizationId, rules, 0,
                             "Shift not found", <<>>)
     ELSE \E allStaff \in StaffOrders(ActiveStaff(organizationId)) :
            call' = EngineCall("findCandidates", shiftId, organizationId, rules, 0, "none",
                               findCandidatesNow(shiftId, organizationId, rules, allStaff))
  /\ UNCHANGED <<shifts, sickCalls, responses, notifications, auditLog, events, reqs, last,
                 started, tasks, clock, send>>

\* MatchingEngine.getTopCandidates(shiftId, organizationId, locationId, count, rules)
TopCandidates(shiftId, organizationId, count, rules) ==
  /\ IF shiftId \notin ShiftIds
     THEN call' = EngineCall("getTopCandidates", shiftId, organizationId, rules, count,
                             "Shift not found", <<>>)
     ELSE \E allStaff \in StaffOrders(ActiveStaff(organizationId)) :
            call' = EngineCall("getTopCandidates", shiftId, organizationId, rules, count,
                               "none",
                               getTopCandidates(
                                 findCandidatesNow(shiftId, organizationId, rules, allStaff),
                                 count))
  /\ UNCHANGED <<shifts, sickCalls, responses, notifications, auditLog, events, reqs, last,
                 started, tasks, clock, send>>

(***************************************************************************)
(* The specification.                                                      *)
(***************************************************************************)
\* the sick-call routes and the coverage processes
Workflow ==
  \/ \E u \in Submitters, s \in SubmitShifts : SubmitRead(u, s)
  \/ \E r \in Slots : SubmitCreate(r)
  \/ \E r \in Slots : SubmitUpdateShift(r)
  \/ \E r \in Slots : SubmitAudit(r)
  \/ \E i \in SickCallIds : CoverageNotifying(i)
  \/ \E i \in SickCallIds : FindWeeklyShifts(i)
  \/ \E i \in SickCallIds : FindRecentPickups(i)
  \/ \E i \in SickCallIds : CoverageUnfilled(i)
  \/ \E i \in SickCallIds : CoverageSmsCreate(i)
  \/ \E i \in SickCallIds, ok \in BOOLEAN : CoverageSmsFinish(i, ok)
  \/ \E u \in Responders, i \in SickCallIds, t \in ResponseTexts : RespondRead(u, i, t)
  \/ \E r \in Slots : RespondCreate(r)
  \/ \E u \in AssignCallers, i \in SickCallIds, s \in AssignTargets : AssignRead(u, i, s)
  \/ \E r \in Slots : AssignUpdateSickCall(r)
  \/ \E r \in Slots : AssignUpdateShift(r)
  \/ \E r \in Slots : AssignAudit(r)
  \/ \E r \in Slots : AssignSmsCreate(r)
  \/ \E r \in Slots, ok \in BOOLEAN : AssignSmsFinish(r, ok)

Next ==
  \/ Workflow
  \/ \E u \in EditCallers, s \in EditShifts, st \in EditStatuses, a \in EditAssignees :
       EditShift(u, s, st, a)

Spec == Init /\ [][Next]_vars

\* the sick-call routes alone: no manager edits a shift
WorkflowSpec == Init /\ [][Workflow]_vars

(***************************************************************************)
(* The ranking on a range of stored shifts: sick call 1 of A for S1 has    *)
(* just been submitted, D works none to five more shifts in the week of    *)
(* S1, of 8 hours or of 8 hours 45 minutes, G has a shift on the date of   *)
(* S1 that is active or cancelled, and B has picked up 1 or 6 shifts of    *)
(* late.                                                                   *)
(***************************************************************************)
\* the shifts D may get and their days, all in the week of Today
ExtraShifts == <<"S3", "S4", "S5", "S6", "S7">>
WeekDays == <<Today - 2, Today - 1, Today + 1, Today + 2, Today + 3>>

EngineTable(k, long, st) ==
  [s \in ShiftIds |->
     IF s = "S1" THEN [NormalDay[s] EXCEPT !.status = "SICK_CALL"]
     ELSE IF s = "S8" THEN [NormalDay[s] EXCEPT !.date = Today, !.status = st]
     ELSE IF \E j \in 1..k : ExtraShifts[j] = s
          THEN [status |-> "SCHEDULED", assignedToId |-> "D",
                date |-> WeekDays[CHOOSE j \in 1..k : ExtraShifts[j] = s],
                startTime |-> 15 * 60,
                endTime |-> IF long THEN 23 * 60 + 45 ELSE 23 * 60]
          ELSE NormalDay[s]]

EngineTables ==
  {EngineTable(k, long, st) : k \in 0..Len(ExtraShifts), long \in BOOLEAN,
                              st \in {"SCHEDULED", "COVERED", "CANCELLED"}}
    \cup {[BusyDay EXCEPT !["S1"].status = "SICK_CALL"]}

\* B's accepted responses of the last 30 days
EnginePickups(p) ==
  [k \in 1..p |-> [sickCallId |-> 0, staffId |-> "B", responseType |-> "ACCEPT"]]

EngineInit ==
  /\ shifts \in EngineTables
  /\ responses \in {EnginePickups(1), EnginePickups(6)}
  /\ sickCalls = <<[organizationId |-> "org1", staffId |-> "A", shiftId |-> "S1",
                    status |-> "PENDING", coveredById |-> NoUser, coveredAt |-> 0]>>
  /\ notifications = <<>>
  /\ auditLog = <<[userId |-> "A", sickCallId |-> 1, action |-> "SICK_CALL_SUBMITTED"]>>
  /\ events = <<Event("sick-call-submitted", 1, NoUser, 0, <<>>)>>
  /\ reqs = [r \in Slots |-> NoRequest]
  /\ last = Request("submit", "done", "A", "S1", 1, NoUser, NoUser, <<>>, 201)
  /\ started = 1
  /\ tasks = [i \in SickCallIds |-> IF i = 1 THEN [NoTask EXCEPT !.pc = "scheduled"] ELSE NoTask]
  /\ clock = 0
  /\ call = NoCall
  /\ send = NoSend

\* the coverage process of the sick call
Coverage ==
  \/ \E i \in SickCallIds : CoverageNotifying(i)
  \/ \E i \in SickCallIds : FindWeeklyShifts(i)
  \/ \E i \in SickCallIds : FindRecentPickups(i)
  \/ \E i \in SickCallIds : CoverageUnfilled(i)
  \/ \E i \in SickCallIds : CoverageSmsCreate(i)
  \/ \E i \in SickCallIds, ok \in BOOLEAN : CoverageSmsFinish(i, ok)

\* the coverage process and the engine's methods called beside it
EngineNext ==
  \/ Coverage
  \/ \E s \in RankShifts, o \in RankOrganizations, ru \in RuleSets : Rank(s, o, ru)
  \/ \E s \in RankShifts, o \in RankOrganizations, n \in RankCounts, ru \in RuleSets :
       TopCandidates(s, o, n, ru)

EngineSpec == EngineInit /\ [][EngineNext]_vars

\* the coverage process and the candidates route called beside it
QueryNext ==
  \/ Coverage
  \/ \E u \in CandidatesCallers, i \in SickCallIds : GetCandidatesRead(u, i)
  \/ \E r \in Slots : GetCandidatesAnswer(r)

QuerySpec == EngineInit /\ [][QueryNext]_vars

\* the continuations of process i that follow an awaited store call or an
\* awaited send: the event loop runs each once its await has resolved
CoverageResumes(i) ==
  \/ CoverageNotifying(i)
  \/ FindWeeklyShifts(i)
  \/ CoverageUnfilled(i)
  \/ CoverageSmsCreate(i)
  \/ \E ok \in BOOLEAN : CoverageSmsFinish(i, ok)

\* the ranking of process i returns: FindRecentPickups(i) is enabled exactly
\* while the process waits at "f_pickups" and always leaves it, so weak
\* fairness of that step is that the process is not at "f_pickups" for ever
RankingReturns(i) == []<>(tasks[i].pc # "f_pickups")

\* the same, no awaited call of the coverage process pending for ever
LiveSpec ==
  /\ EngineInit
  /\ [][QueryNext]_vars
  /\ \A i \in SickCallIds : WF_vars(CoverageResumes(i)) /\ RankingReturns(i)

(***************************************************************************)
(* Failures of the background process.  Every awaited call of              *)
(* startShiftCoverageProcess outside sendSMS can reject (the store is      *)
(* unreachable, findCandidates throws 'Shift not found'); the rejection    *)
(* ends the process in the catch of the setImmediate callback, which logs  *)
(* it.                                                                     *)
(***************************************************************************)
\* positions at which the next awaited call can reject: the reads and the
\* update to NOTIFYING, the queries of the ranking, the update to UNFILLED
FailurePoints == {"scheduled", "f_week", "f_pickups", "c_unfilled"}

CoverageFails(i) ==
  /\ i \in 1..Len(sickCalls)
  /\ tasks[i].pc \in FailurePoints
  /\ tasks' = [tasks EXCEPT ![i].pc = "failed"]
  /\ UNCHANGED <<shifts, sickCalls, responses, notifications, auditLog, events, reqs, last,
                 started, clock>>
  /\ UNCHANGED <<call, send>>

\* the submit route
Submit ==
  \/ \E u \in Submitters, s \in SubmitShifts : SubmitRead(u, s)
  \/ \E r \in Slots : SubmitCreate(r)
  \/ \E r \in Slots : SubmitUpdateShift(r)
  \/ \E r \in Slots : SubmitAudit(r)

\* submits and their coverage processes, which may fail
FaultNext ==
  \/ Submit
  \/ Coverage
  \/ \E i \in SickCallIds : CoverageFails(i)

FaultSpec == Init /\ [][FaultNext]_vars

(***************************************************************************)
(* sendSMS called beside the coverage process of sick call 1, whose offer  *)
(* goes to A.                                                              *)
(***************************************************************************)
SendNext ==
  \/ Coverage
  \/ \E u \in SendRecipients, i \in SickCallIds : SendCreate(u, i)
  \/ \E ok \in BOOLEAN : SendFinish(ok)

SendSpec == EngineInit /\ [][SendNext]_vars

(***************************************************************************)
(* Two organizations: sick call 1 of org1 has been submitted on an         *)
(* ordinary day; staff and managers of org1 and of org2 respond and        *)
(* assign before its coverage process has run.                             *)
(***************************************************************************)
TenantInit ==
  /\ EngineInit
  /\ shifts = EngineTable(0, FALSE, "SCHEDULED")
  /\ responses = EnginePickups(1)

TenantNext ==
  \/ \E u \in TenantResponders, i \in SickCallIds, t \in ResponseTexts : RespondRead(u, i, t)
  \/ \E r \in Slots : RespondCreate(r)
  \/ \E u \in TenantManagers, i \in SickCallIds, s \in TenantTargets : AssignRead(u, i, s)
  \/ \E r \in Slots : AssignUpdateSickCall(r)
  \/ \E r \in Slots : AssignUpdateShift(r)
  \/ \E r \in Slots : AssignAudit(r)
  \/ \E r \in Slots : AssignSmsCreate(r)
  \/ \E r \in Slots, ok \in BOOLEAN : AssignSmsFinish(r, ok)

TenantSpec == TenantInit /\ [][TenantNext]_vars


(***************************************************************************)
(* Vocabulary of the properties.                                           *)
(***************************************************************************)
\* a request arrives in this step
Arrival == started' = started + 1

\* the request that arrives in this step, as it stands after its first read
Arriving == IF reqs' = reqs THEN last' ELSE reqs'[CHOOSE r \in Slots : reqs'[r] # reqs[r]]

\* the arriving request is answered in the step in which it arrives
Rejected == Arrival /\ reqs' = reqs

\* the step leaves the store, the events and the scheduled processes alone
NothingChanges == UNCHANGED <<shifts, sickCalls, responses, notifications, auditLog, events,
                              tasks, clock>>

SickCallsOf(shiftId) == {i \in 1..Len(sickCalls) : sickCalls[i].shiftId = shiftId}

AuditRows(sickCallId, action) ==
  {k \in 1..Len(auditLog) : /\ auditLog[k].sickCallId = sickCallId
                            /\ auditLog[k].action = action}

EventRows(sickCallId, type) ==
  {k \in 1..Len(events) : events[k].sickCallId = sickCallId /\ events[k].type = type}

\* a submit for the shift has been answered 201 (which schedules the coverage
\* process) and its sick call is not cancelled
Submitted(shiftId) ==
  \E i \in SickCallsOf(shiftId) : sickCalls[i].status # "CANCELLED" /\ tasks[i].pc # "none"

(***************************************************************************)
(* C1: once a submit for a shift has succeeded and its sick call is not    *)
(* CANCELLED, every later submit for that shift is rejected, whoever calls *)
(* and whatever has happened to the shift since.                           *)
(***************************************************************************)
C1_LaterSubmitFails ==
  [][\A s \in ShiftIds :
       (Submitted(s) /\ Arrival /\ Arriving.kind = "submit" /\ Arriving.shiftId = s)
         => (Rejected /\ last'.res \in {400, 403, 404} /\ NothingChanges)]_vars

(***************************************************************************)
(* C2: in every reachable state each shift has at most one sick call whose *)
(* status is not CANCELLED.                                                *)
(***************************************************************************)
C2_OneActiveSickCallPerShift ==
  \A s \in ShiftIds :
    Cardinality({i \in SickCallsOf(s) : sickCalls[i].status # "CANCELLED"}) <= 1

(***************************************************************************)
(* C3: of the accepting responds of different staff to one sick call       *)
(* exactly one gets through: the sick call has at most one SHIFT_ACCEPTED  *)
(* audit entry, and when an accepting respond is answered 200 that entry   *)
(* is the caller's.                                                        *)
(***************************************************************************)
C3_ExactlyOneAccept ==
  \A i \in 1..Len(sickCalls) :
    LET accepted == AuditRows(i, "SHIFT_ACCEPTED")
    IN  /\ Cardinality(accepted) <= 1
        /\ (/\ last.kind = "respond"
            /\ last.sickCallId = i
            /\ last.res = 200
            /\ parseResponse(last.responseText) = "ACCEPT")
             => {auditLog[k].userId : k \in accepted} = {last.userId}

(***************************************************************************)
(* C4: in every reachable state a shift's status is COVERED if and only if *)
(* the status of its sick call is COVERED.                                 *)
(***************************************************************************)
C4_ShiftCoveredIffSickCallCovered ==
  \A i \in 1..Len(sickCalls) :
    (shifts[sickCalls[i].shiftId].status = "COVERED") <=> (sickCalls[i].status = "COVERED")

(***************************************************************************)
(* C5: a respond with an accepting text that arrives for a sick call whose *)
(* status is COVERED is answered 400 at once and changes nothing: no       *)
(* response row, no audit entry, the sick call and the shift as they were. *)
(***************************************************************************)
C5_RespondOnCoveredFails ==
  [][(/\ Arrival
      /\ Arriving.kind = "respond"
      /\ parseResponse(Arriving.responseText) = "ACCEPT"
      /\ Arriving.sickCallId \in 1..Len(sickCalls)
      /\ sickCalls[Arriving.sickCallId].status = "COVERED")
       => (Rejected /\ last'.res = 400 /\ NothingChanges)]_vars

\* an accepting respond was answered 400 and its sick call is COVERED
C5_Witness ==
  /\ last.kind = "respond"
  /\ last.res = 400
  /\ parseResponse(last.responseText) = "ACCEPT"
  /\ last.sickCallId \in 1..Len(sickCalls)
  /\ sickCalls[last.sickCallId].status = "COVERED"
  /\ sickCalls[last.sickCallId].coveredById # last.userId

(***************************************************************************)
(* C6: once a sick call is COVERED, its coveredById and coveredAt never    *)
(* change again, and once its shift is assigned to the covering staff the  *)
(* shift's assignedToId never changes again, whatever respond, manual      *)
(* assign and notify-next steps follow (a shift edit is not one of them).  *)
(***************************************************************************)
C6_CoverageImmutable ==
  [][\A i \in 1..Len(sickCalls) :
       (sickCalls[i].status = "COVERED" /\ ~(Arrival /\ Arriving.kind = "edit"))
         => /\ sickCalls'[i].coveredById = sickCalls[i].coveredById
            /\ sickCalls'[i].coveredAt = sickCalls[i].coveredAt
            /\ (shifts[sickCalls[i].shiftId].assignedToId = sickCalls[i].coveredById
                  => shifts'[sickCalls[i].shiftId].assignedToId = sickCalls[i].coveredById)]_vars

(***************************************************************************)
(* C7: the status of a sick call never moves from COVERED to NOTIFYING or  *)
(* to UNFILLED.                                                            *)
(***************************************************************************)
C7_NoStepBackFromCovered ==
  [][\A i \in 1..Len(sickCalls) :
       sickCalls[i].status = "COVERED" => sickCalls'[i].status \notin {"NOTIFYING", "UNFILLED"}]_vars

(***************************************************************************)
(* C8: a submit that arrives for a shift that does not exist is answered   *)
(* 404, one for a shift not assigned to the caller is answered 403, and    *)
(* either changes nothing: no sick call, no shift update, no audit entry,  *)
(* no event, no coverage process scheduled.                                *)
(***************************************************************************)
C8_InvalidSubmitChangesNothing ==
  [][(Arrival /\ Arriving.kind = "submit")
       => /\ Arriving.shiftId \notin ShiftIds
               => (Rejected /\ last'.res = 404 /\ NothingChanges)
          /\ (/\ Arriving.shiftId \in ShiftIds
              /\ shifts[Arriving.shiftId].assignedToId # Arriving.userId)
               => (Rejected /\ last'.res = 403 /\ NothingChanges)]_vars

\* a submit for a shift assigned to someone else was answered 403
C8_Witness ==
  /\ last.kind = "submit"
  /\ last.res = 403
  /\ last.shiftId \in ShiftIds
  /\ shifts[last.shiftId].assignedToId # last.userId


(***************************************************************************)
(* C9: a successful submit creates one PENDING sick call for the shift and *)
(* the caller, then sets the shift to SICK_CALL, then writes one           *)
(* SICK_CALL_SUBMITTED audit entry and emits one sick-call-submitted       *)
(* event; the coverage process is scheduled only then, so the submission   *)
(* event precedes every candidates-found, sick-call-unfilled and           *)
(* notification-sent event of the sick call.                               *)
(***************************************************************************)
\* what the steps of a submit that passed validation do
C9_SubmitSteps ==
  \A r \in Slots :
    (reqs[r].kind = "submit" /\ reqs'[r] # reqs[r])
      => /\ reqs[r].pc = "s_create"
              => /\ sickCalls' = Append(sickCalls, sickCalls'[Len(sickCalls')])
                 /\ sickCalls'[Len(sickCalls')].status = "PENDING"
                 /\ sickCalls'[Len(sickCalls')].shiftId = reqs[r].shiftId
                 /\ sickCalls'[Len(sickCalls')].staffId = reqs[r].userId
                 /\ reqs'[r].sickCallId = Len(sickCalls')
                 /\ UNCHANGED <<auditLog, events, tasks>>
         /\ reqs[r].pc = "s_shift"
              => /\ shifts'[reqs[r].shiftId].status = "SICK_CALL"
                 /\ UNCHANGED <<sickCalls, auditLog, events, tasks>>
         /\ reqs[r].pc = "s_audit"
              => /\ last' = [reqs[r] EXCEPT !.pc = "done", !.res = 201]
                 /\ auditLog' = Append(auditLog, auditLog'[Len(auditLog')])
                 /\ auditLog'[Len(auditLog')].action = "SICK_CALL_SUBMITTED"
                 /\ auditLog'[Len(auditLog')].sickCallId = reqs[r].sickCallId
                 /\ events' = Append(events, events'[Len(events')])
                 /\ events'[Len(events')].type = "sick-call-submitted"
                 /\ events'[Len(events')].sickCallId = reqs[r].sickCallId
                 /\ tasks[reqs[r].sickCallId].pc = "none"
                 /\ UNCHANGED sickCalls

\* each sick call has one submission audit entry and one submission event
\* once its submit is answered, none before
C9_OneOfEach ==
  \A i \in 1..Len(sickCalls) :
    LET answered == IF tasks[i].pc # "none" THEN 1 ELSE 0
    IN  /\ Cardinality(AuditRows(i, "SICK_CALL_SUBMITTED")) = answered
        /\ Cardinality(EventRows(i, "sick-call-submitted")) = answered

\* the submission event of a sick call precedes its events of the given types
SubmissionPrecedes(types) ==
  \A k \in 1..Len(events) :
    (events[k].type \in types /\ events[k].sickCallId \in 1..Len(sickCalls))
      => \E j \in 1..(k - 1) : /\ events[j].type = "sick-call-submitted"
                               /\ events[j].sickCallId = events[k].sickCallId

\* the notification-sent events of the offers, which the coverage process sends
OfferSent(k) ==
  /\ events[k].type = "notification-sent"
  /\ notifications[events[k].notificationId].kind = "offer"

\* C9 as stated: the submission event precedes every candidates-found,
\* sick-call-unfilled and notification-sent event of the sick call
C9_AsStated ==
  /\ C9_OneOfEach
  /\ SubmissionPrecedes({"candidates-found", "sick-call-unfilled", "notification-sent"})

\* C9 as amended: the submission event precedes every candidates-found and
\* sick-call-unfilled event of the sick call and the notification-sent event
\* of its offer (the confirmation an assign sends may come earlier); the
\* rest as stated
C9_SubmitThenNotify ==
  /\ [][C9_SubmitSteps]_vars
  /\ [](C9_OneOfEach)
  /\ [](SubmissionPrecedes({"candidates-found", "sick-call-unfilled"}))
  /\ [](\A k \in 1..Len(events) :
          OfferSent(k) => \E j \in 1..(k - 1) : /\ events[j].type = "sick-call-submitted"
                                                /\ events[j].sickCallId = events[k].sickCallId)

\* a submit was answered 201 and the coverage process of its sick call has
\* sent the offer and emitted candidates-found
C9_Witness ==
  /\ last.kind = "submit"
  /\ last.res = 201
  /\ sickCalls[last.sickCallId].shiftId = last.shiftId
  /\ EventRows(last.sickCallId, "candidates-found") # {}
  /\ \E k \in 1..Len(events) : OfferSent(k) /\ events[k].sickCallId = last.sickCallId

(***************************************************************************)
(* C10: when the coverage process finds available candidates it creates    *)
(* one offer notification, for the first of the ranked candidates and for  *)
(* no one else, does not touch the sick call again, and emits one          *)
(* candidates-found event with the ranked list of at most 5 available      *)
(* candidates.                                                             *)
(***************************************************************************)
Offers(i) ==
  {n \in 1..Len(notifications) :
     notifications[n].sickCallId = i /\ notifications[n].kind = "offer"}

\* the list is ranked: available staff only, no one twice, best score first
Ranked(task) ==
  \A k \in 1..Len(task.candidates) :
    /\ task.candidates[k].isAvailable
    /\ ~isWorking(task.week, task.shift, task.candidates[k].userId)
    /\ \A j \in 1..(k - 1) : /\ task.candidates[j].score >= task.candidates[k].score
                             /\ task.candidates[j].userId # task.candidates[k].userId

C10_OfferState ==
  \A i \in 1..Len(sickCalls) :
    LET cs == tasks[i].candidates
        found == EventRows(i, "candidates-found")
    IN  cs # <<>>
          => /\ Len(cs) <= 5
             /\ Ranked(tasks[i])
             /\ \A n \in Offers(i) : notifications[n].recipientId = cs[1].userId
             /\ Cardinality(Offers(i)) = IF tasks[i].pc \in {"c_sent", "done"} THEN 1 ELSE 0
             /\ Cardinality(found) = IF tasks[i].pc = "done" THEN 1 ELSE 0
             /\ \A k \in found : events[k].candidates = cs

\* the steps of the coverage process after the ranking
C10_OfferSteps ==
  \A i \in 1..Len(sickCalls) :
    (tasks[i].pc \in {"c_sms", "c_sent"} /\ tasks'[i] # tasks[i])
      => /\ UNCHANGED sickCalls
         /\ tasks[i].pc = "c_sms"
              => /\ notifications' = Append(notifications, notifications'[Len(notifications')])
                 /\ notifications'[Len(notifications')].recipientId = tasks[i].candidates[1].userId
         /\ tasks[i].pc = "c_sent" => Len(notifications') = Len(notifications)

C10_OneOfferToTheFirst == [](C10_OfferState) /\ [][C10_OfferSteps]_vars

\* a coverage process has ended after offering the shift to the first of five
\* candidates
C10_Witness ==
  \E i \in 1..Len(sickCalls) :
    /\ tasks[i].pc = "done"
    /\ Len(tasks[i].candidates) = 5
    /\ sickCalls[i].status = "NOTIFYING"
    /\ \E n \in Offers(i) : notifications[n].recipientId = tasks[i].candidates[1].userId
    /\ EventRows(i, "candidates-found") # {}

(***************************************************************************)
(* C11: when the coverage process finds no available candidate it sets the *)
(* sick call to UNFILLED and emits one sick-call-unfilled event; it        *)
(* creates no offer notification and emits no candidates-found event.      *)
(***************************************************************************)
\* the coverage process of sick call i ranked and found no one
FoundNoOne(i) == tasks[i].pc \in {"c_unfilled", "done"} /\ tasks[i].candidates = <<>>

C11_UnfilledState ==
  \A i \in 1..Len(sickCalls) :
    FoundNoOne(i)
      => /\ Offers(i) = {}
         /\ EventRows(i, "candidates-found") = {}
         /\ Cardinality(EventRows(i, "sick-call-unfilled"))
              = IF tasks[i].pc = "done" THEN 1 ELSE 0

\* the step the coverage process takes after finding no one
C11_UnfilledStep ==
  \A i \in 1..Len(sickCalls) :
    (FoundNoOne(i) /\ tasks'[i] # tasks[i])
      => /\ sickCalls'[i].status = "UNFILLED"
         /\ \A j \in 1..Len(sickCalls) : j # i => sickCalls'[j] = sickCalls[j]
         /\ events' = Append(events, events'[Len(events')])
         /\ events'[Len(events')].type = "sick-call-unfilled"
         /\ events'[Len(events')].sickCallId = i
         /\ tasks'[i].pc = "done"
         /\ UNCHANGED <<shifts, notifications, responses, auditLog>>

C11_NoCandidateUnfilled == [](C11_UnfilledState) /\ [][C11_UnfilledStep]_vars

\* a coverage process has ended without candidates and its sick call is
\* UNFILLED
C11_Witness ==
  \E i \in 1..Len(sickCalls) :
    /\ tasks[i].pc = "done"
    /\ tasks[i].candidates = <<>>
    /\ sickCalls[i].status = "UNFILLED"
    /\ Cardinality(EventRows(i, "sick-call-unfilled")) = 1

(***************************************************************************)
(* Reply texts, classified from the word lists: a text is a reply word     *)
(* when, without the white space around it, it spells the word in any mix  *)
(* of upper and lower case.                                                *)
(***************************************************************************)
Spells(letters) == [k \in 1..Len(letters) |-> {Upper[letters[k]], Lower[letters[k]]}]

\* YES, Y, ACCEPT, 1, OK (letters by their place in the alphabet)
AcceptingWords ==
  {Spells(<<25, 5, 19>>), Spells(<<25>>), Spells(<<1, 3, 3, 5, 16, 20>>), <<{"1"}>>,
   Spells(<<15, 11>>)}

\* NO, N, DECLINE, 2, NOPE
DecliningWords ==
  {Spells(<<14, 15>>), Spells(<<14>>), Spells(<<4, 5, 3, 12, 9, 14, 5>>), <<{"2"}>>,
   Spells(<<14, 15, 16, 5>>)}

\* the text without the white space around it
Core(t) ==
  LET inked == {k \in 1..Len(t) : t[k] \notin {" ", "\t", "\n"}}
  IN  IF inked = {} THEN <<>>
      ELSE SubSeq(t, CHOOSE a \in inked : \A k \in inked : a <= k,
                     CHOOSE b \in inked : \A k \in inked : b >= k)

IsWord(t, words) ==
  \E w \in words : /\ Len(Core(t)) = Len(w)
                   /\ \A k \in 1..Len(w) : Core(t)[k] \in w[k]

Classify(t) ==
  IF IsWord(t, AcceptingWords) THEN "ACCEPT"
  ELSE IF IsWord(t, DecliningWords) THEN "DECLINE"
  ELSE "null"

(***************************************************************************)
(* C12: assignShift on an existing sick call sets the sick call to COVERED *)
(* with coveredById the staff, sets the shift to COVERED with assignedToId *)
(* the staff, writes one audit entry (MANUAL_ASSIGNMENT for the assign     *)
(* route, SHIFT_ACCEPTED for an accepting respond) and emits one           *)
(* shift-covered event; an accepting respond also records one ACCEPT       *)
(* response.                                                               *)
(***************************************************************************)
CoveredEvents(evs, i) ==
  {k \in 1..Len(evs) : evs[k].type = "shift-covered" /\ evs[k].sickCallId = i}

\* what each step of a request that runs assignShift does
C12_AssignSteps ==
  \A r \in Slots :
    LET q == reqs[r]
        i == q.sickCallId
    IN  (q.kind \in {"assign", "respond"} /\ reqs'[r] # q)
          => /\ q.pc = "r_create"
                  => /\ Classify(q.responseText) = "ACCEPT"
                          => /\ responses' = Append(responses, responses'[Len(responses')])
                             /\ responses'[Len(responses')]
                                  = [sickCallId |-> i, staffId |-> q.userId,
                                     responseType |-> "ACCEPT"]
                             /\ reqs'[r].pc = "a_sickcall"
                     /\ UNCHANGED <<sickCalls, shifts, auditLog>>
             /\ q.pc = "a_sickcall"
                  => /\ sickCalls'[i].status = "COVERED"
                     /\ sickCalls'[i].coveredById = q.staffId
                     /\ UNCHANGED <<shifts, auditLog, events, responses>>
             /\ q.pc = "a_shift"
                  => /\ shifts'[sickCalls[i].shiftId].status = "COVERED"
                     /\ shifts'[sickCalls[i].shiftId].assignedToId = q.staffId
                     /\ UNCHANGED <<sickCalls, auditLog, events, responses>>
             /\ q.pc = "a_audit"
                  => /\ auditLog' = Append(auditLog, auditLog'[Len(auditLog')])
                     /\ auditLog'[Len(auditLog')].sickCallId = i
                     /\ auditLog'[Len(auditLog')].action
                          = IF q.kind = "assign" THEN "MANUAL_ASSIGNMENT" ELSE "SHIFT_ACCEPTED"
                     /\ UNCHANGED <<sickCalls, shifts, events, responses>>
             /\ q.pc = "a_sms" => UNCHANGED <<sickCalls, shifts, auditLog, events, responses>>
             /\ q.pc = "a_sent"
                  => /\ Cardinality(CoveredEvents(events', i))
                          = Cardinality(CoveredEvents(events, i)) + 1
                     /\ last'.res = 200
                     /\ UNCHANGED <<sickCalls, shifts, auditLog, responses>>

\* the requests running assignShift for sick call i at one of the places
InAssign(i, pcs) == {r \in Slots : reqs[r].sickCallId = i /\ reqs[r].pc \in pcs}

\* one audit entry and one event for each run of assignShift, one ACCEPT
\* response for each accepting respond
C12_OneOfEach ==
  \A i \in 1..Len(sickCalls) :
    /\ Cardinality(AuditRows(i, "MANUAL_ASSIGNMENT")) + Cardinality(AuditRows(i, "SHIFT_ACCEPTED"))
         = Cardinality(CoveredEvents(events, i)) + Cardinality(InAssign(i, {"a_sms", "a_sent"}))
    /\ Cardinality({k \in 1..Len(responses) : /\ responses[k].sickCallId = i
                                              /\ responses[k].responseType = "ACCEPT"})
         = Cardinality(AuditRows(i, "SHIFT_ACCEPTED"))
           + Cardinality({r \in InAssign(i, {"a_sickcall", "a_shift", "a_audit"}) :
                            reqs[r].kind = "respond"})

C12_AssignCovers == [][C12_AssignSteps]_vars /\ [](C12_OneOfEach)

\* a sick call was covered by an accepting respond and by a manual assign,
\* the later of which has just been answered
C12_Witness ==
  /\ last.kind \in {"assign", "respond"}
  /\ last.res = 200
  /\ last.sickCallId \in 1..Len(sickCalls)
  /\ AuditRows(last.sickCallId, "MANUAL_ASSIGNMENT") # {}
  /\ AuditRows(last.sickCallId, "SHIFT_ACCEPTED") # {}
  /\ Cardinality(CoveredEvents(events, last.sickCallId)) = 2
  /\ sickCalls[last.sickCallId].status = "COVERED"
  /\ shifts[sickCalls[last.sickCallId].shiftId].status = "COVERED"
  /\ shifts[sickCalls[last.sickCallId].shiftId].assignedToId
       = sickCalls[last.sickCallId].coveredById

(***************************************************************************)
(* C13: a declining respond records one DECLINE response and leaves the    *)
(* sick calls, the shifts, the notifications and the coverage processes as *)
(* they were; the status of a NOTIFYING sick call that has an offer        *)
(* changes only in assignShift's update, run by an accepting respond or a  *)
(* manual assign.                                                          *)
(***************************************************************************)
C13_DeclineStep ==
  \A r \in Slots :
    (/\ reqs[r].kind = "respond"
     /\ reqs[r].pc = "r_create"
     /\ Classify(reqs[r].responseText) = "DECLINE"
     /\ reqs'[r] # reqs[r])
      => /\ responses' = Append(responses, [sickCallId |-> reqs[r].sickCallId,
                                            staffId |-> reqs[r].userId,
                                            responseType |-> "DECLINE"])
         /\ last'.res = 200
         /\ reqs'[r] = NoRequest
         /\ UNCHANGED <<sickCalls, shifts, notifications, auditLog, tasks>>

C13_OfferedStaysNotifying ==
  \A i \in 1..Len(sickCalls) :
    (/\ sickCalls[i].status = "NOTIFYING"
     /\ Offers(i) # {}
     /\ sickCalls'[i].status # "NOTIFYING")
      => /\ sickCalls'[i].status = "COVERED"
         /\ \E r \in Slots : /\ reqs[r].kind \in {"respond", "assign"}
                             /\ reqs[r].pc = "a_sickcall"
                             /\ reqs[r].sickCallId = i
                             /\ reqs'[r].pc = "a_shift"
                             /\ reqs[r].kind = "respond"
                                  => Classify(reqs[r].responseText) = "ACCEPT"

C13_DeclineOnlyRecords == [][C13_DeclineStep /\ C13_OfferedStaysNotifying]_vars

\* a decline of a NOTIFYING sick call with an offer was answered 200 and is
\* the only response to it
C13_Witness ==
  /\ last.kind = "respond"
  /\ last.res = 200
  /\ Classify(last.responseText) = "DECLINE"
  /\ last.sickCallId \in 1..Len(sickCalls)
  /\ sickCalls[last.sickCallId].status = "NOTIFYING"
  /\ Offers(last.sickCallId) # {}
  /\ \E k \in 1..Len(responses) : /\ responses[k].sickCallId = last.sickCallId
                                  /\ responses[k].responseType = "DECLINE"
  /\ \A k \in 1..Len(responses) : responses[k].sickCallId = last.sickCallId
                                    => responses[k].responseType = "DECLINE"

(***************************************************************************)
(* C14: respond takes a text as an acceptance exactly when it is one of    *)
(* YES, Y, ACCEPT, 1, OK and as a decline exactly when it is one of NO, N, *)
(* DECLINE, 2, NOPE, white space around it and case aside; a respond with  *)
(* any other text is answered 400 and changes nothing.                     *)
(***************************************************************************)
\* the texts the classification is compared on: every text of up to
\* MaxTextLen characters of the alphabet, and some longer ones
TextAlphabet == {"y", "Y", "e", "E", "s", "n", "N", "o", "O", "k", "1", "2", " "}

RECURSIVE TextsOfLength(_)
TextsOfLength(n) ==
  IF n = 0 THEN {<<>>}
  ELSE {<<c>> \o t : c \in TextAlphabet, t \in TextsOfLength(n - 1)}

LongTexts ==
  {<<"a","c","C","e","p","T">>, <<" ","A","C","C","E","P","T","\n">>,
   <<"d","E","c","l","i","n","e">>, <<"\t","N","o","p","E">>, <<"n","o","p","e","s">>,
   <<"a","c","c","e","p","t","s">>, <<"y","e","s"," ","n","o">>, <<"o","k","a","y">>,
   <<"n"," ","o","p","e">>, <<"m","a","y","b","e">>}

ParseTexts == LongTexts \cup UNION {TextsOfLength(n) : n \in 0..MaxTextLen}

C14_Classification == \A t \in ParseTexts : parseResponse(t) = Classify(t)

\* a respond that arrives for a sick call that exists and is not COVERED
C14_RespondArrives ==
  (/\ Arrival
   /\ Arriving.kind = "respond"
   /\ Arriving.sickCallId \in 1..Len(sickCalls)
   /\ sickCalls[Arriving.sickCallId].status # "COVERED")
    => IF Classify(Arriving.responseText) = "null"
       THEN Rejected /\ last'.res = 400 /\ NothingChanges
       ELSE ~Rejected /\ Arriving.pc = "r_create"

\* the response a respond records has the type of its text
C14_RespondRecords ==
  \A r \in Slots :
    (reqs[r].pc = "r_create" /\ reqs'[r] # reqs[r])
      => /\ Classify(reqs[r].responseText) # "null"
         /\ responses' = Append(responses, [sickCallId |-> reqs[r].sickCallId,
                                            staffId |-> reqs[r].userId,
                                            responseType |-> Classify(reqs[r].responseText)])

C14_TextClassified ==
  /\ [](C14_Classification)
  /\ [][C14_RespondArrives /\ C14_RespondRecords]_vars

\* a respond with a text that is no reply word was answered 400; the sick
\* call is open and has no response
C14_Witness ==
  /\ last.kind = "respond"
  /\ last.res = 400
  /\ Classify(last.responseText) = "null"
  /\ last.sickCallId \in 1..Len(sickCalls)
  /\ sickCalls[last.sickCallId].status = "NOTIFYING"
  /\ \A k \in 1..Len(responses) : responses[k].sickCallId # last.sickCallId

(***************************************************************************)
(* Vocabulary of the ranking properties, read off the stored rows.         *)
(***************************************************************************)
\* the staff member is assigned to another active shift on the shift's date
Busy(staff, shiftId) ==
  \E s \in ShiftIds \ {shiftId} : /\ shifts[s].assignedToId = staff
                                  /\ shifts[s].status \in {"SCHEDULED", "COVERED"}
                                  /\ shifts[s].date = shifts[shiftId].date

\* the organization's active shifts of the staff member in the shift's week
ActiveInWeek(staff, shiftId, organizationId) ==
  {s \in ShiftIds : /\ ShiftOrg(s) = organizationId
                    /\ shifts[s].assignedToId = staff
                    /\ shifts[s].status \in {"SCHEDULED", "COVERED"}
                    /\ shifts[s].date \div 7 = shifts[shiftId].date \div 7}

Minutes(s) == shifts[s].endTime - shifts[s].startTime

RECURSIVE MinutesOf(_)
MinutesOf(ids) ==
  IF ids = {} THEN 0
  ELSE LET s == CHOOSE x \in ids : TRUE IN Minutes(s) + MinutesOf(ids \ {s})

\* accepted responses of the staff member in the organization (all stored
\* responses are of the last 30 days)
Pickups(staff, organizationId) ==
  Cardinality({k \in 1..Len(responses) : /\ responses[k].staffId = staff
                                         /\ responses[k].responseType = "ACCEPT"
                                         /\ SickCallOrg(responses[k].sickCallId) = organizationId})

\* a call of the method has returned a list
Returned(fn) == call.fn = fn /\ call.error = "none"

(***************************************************************************)
(* C15: staff assigned to another SCHEDULED or COVERED shift on the date   *)
(* of the shift are in no list getTopCandidates returns, with the          *)
(* availability rule on or off, are left out by findCandidates when the    *)
(* rule is on and returned with isAvailable false when it is off, are not  *)
(* among the candidates of a coverage process and get no offer.            *)
(***************************************************************************)
C15_BusyStaffNotOffered ==
  /\ (call.fn # "none" /\ call.error = "none")
       => \A k \in 1..Len(call.result) :
            Busy(call.result[k].userId, call.shiftId)
              => /\ call.fn = "findCandidates"
                 /\ ~call.rules.prioritizeAvailability
                 /\ ~call.result[k].isAvailable
  /\ \A i \in 1..Len(sickCalls) :
       \A k \in 1..Len(tasks[i].candidates) :
         ~Busy(tasks[i].candidates[k].userId, sickCalls[i].shiftId)
  /\ \A n \in 1..Len(notifications) :
       notifications[n].kind = "offer"
         => ~Busy(notifications[n].recipientId, sickCalls[notifications[n].sickCallId].shiftId)

\* with the availability rule off, getTopCandidates has returned a list for
\* S1 while C and G work another active shift that day, and the coverage
\* process has made its offer
C15_Witness ==
  /\ Returned("getTopCandidates")
  /\ call.rules = NoAvailabilityRule
  /\ call.shiftId = "S1"
  /\ call.organizationId = "org1"
  /\ Len(call.result) > 0
  /\ Busy("C", "S1")
  /\ Busy("G", "S1")
  /\ Offers(1) # {}

(***************************************************************************)
(* C16: under the default rules every candidate findCandidates returns has *)
(* score 1000, plus 500 if the staff member works no other shift on the    *)
(* date and minus 1000 otherwise, plus 300 if the hours of the week and    *)
(* the hours of the shift together are at most 40 and minus 200 otherwise, *)
(* plus 10 times a known seniority, plus 100 less 20 for each recent       *)
(* pickup but not less than 0.                                             *)
(***************************************************************************)
ScoreAsStated(staff, shiftId, organizationId) ==
  LET total == MinutesOf(ActiveInWeek(staff, shiftId, organizationId)) + Minutes(shiftId)
      fairness == 100 - 20 * Pickups(staff, organizationId)
  IN  1000
      + (IF ~Busy(staff, shiftId) THEN 500 ELSE 0 - 1000)
      + (IF total <= 40 * 60 THEN 300 ELSE 0 - 200)
      + (IF Users[staff].seniority # 0 THEN 10 * Users[staff].seniority ELSE 0)
      + (IF fairness > 0 THEN fairness ELSE 0)

C16_ScoreAsStated ==
  (Returned("findCandidates") /\ call.rules = DefaultRules)
    => \A k \in 1..Len(call.result) :
         call.result[k].score
           = ScoreAsStated(call.result[k].userId, call.shiftId, call.organizationId)

(***************************************************************************)
(* C17: findCandidates returns the candidates by falling score with ranks  *)
(* 1..N in list order, candidates of equal score by falling seniority, and *)
(* a second call on the same stored rows returns the same list.            *)
(***************************************************************************)
C17_Ordered ==
  Returned("findCandidates")
    => \A k \in 1..Len(call.result) :
         /\ call.result[k].rank = k
         /\ \A j \in 1..(k - 1) :
              /\ call.result[j].score >= call.result[k].score
              /\ call.result[j].score = call.result[k].score
                   => SeniorityKey(call.result[j].userId) >= SeniorityKey(call.result[k].userId)

C17_Repeatable ==
  (/\ Returned("findCandidates")
   /\ call'.fn = "findCandidates"
   /\ call'.error = "none"
   /\ call'.shiftId = call.shiftId
   /\ call'.organizationId = call.organizationId
   /\ call'.rules = call.rules
   /\ UNCHANGED <<shifts, responses, sickCalls>>)
    => call'.result = call.result

C17_RankOrderedRepeatable == [](C17_Ordered) /\ [][C17_Repeatable]_vars

(***************************************************************************)
(* C18: with availability, seniority and recent pickups the same, a        *)
(* candidate who would be in overtime scores exactly 500 less than one who *)
(* would not; a weekly total of exactly 40 hours is not overtime.          *)
(***************************************************************************)
\* the score as a function of the overtime flag
C18_Swing ==
  \A rules \in RuleSets, working \in BOOLEAN, seniority \in 0..10, pickups \in 0..6 :
    Score(rules, working, TRUE, seniority, pickups)
      = Score(rules, working, FALSE, seniority, pickups) - 500

C18_Returned ==
  Returned("findCandidates")
    => /\ \A k \in 1..Len(call.result) :
            call.result[k].willBeOvertime
              <=> (call.result[k].hoursWorkedThisWeek + Minutes(call.shiftId) \div 60 > 40)
       /\ \A j, k \in 1..Len(call.result) :
            LET a == call.result[j]
                b == call.result[k]
            IN  (/\ a.isAvailable = b.isAvailable
                 /\ Users[a.userId].seniority = Users[b.userId].seniority
                 /\ Pickups(a.userId, call.organizationId) = Pickups(b.userId, call.organizationId)
                 /\ ~a.willBeOvertime
                 /\ b.willBeOvertime)
                  => b.score = a.score - 500

C18_OvertimeCosts500 == [](C18_Swing) /\ [](C18_Returned)

\* findCandidates has returned two available candidates of the same
\* seniority and pickups, one in overtime and scoring 500 less than the other
C18_Witness ==
  /\ Returned("findCandidates")
  /\ \E j, k \in 1..Len(call.result) :
       LET a == call.result[j]
           b == call.result[k]
       IN  /\ a.isAvailable /\ b.isAvailable
           /\ Users[a.userId].seniority = Users[b.userId].seniority
           /\ Pickups(a.userId, call.organizationId) = Pickups(b.userId, call.organizationId)
           /\ ~a.willBeOvertime
           /\ b.willBeOvertime
           /\ b.hoursWorkedThisWeek = 40
           /\ b.score = a.score - 500

(***************************************************************************)
(* C19: the candidates route and the ranking it runs change no stored row, *)
(* emit no event and leave the coverage processes and the other requests   *)
(* as they are, however often the route is called between the steps of a   *)
(* coverage process.                                                       *)
(***************************************************************************)
C19_CandidatesStep ==
  (\/ Arrival /\ Arriving.kind = "candidates"
   \/ \E r \in Slots : reqs[r].kind = "candidates" /\ reqs'[r] # reqs[r])
    => /\ UNCHANGED <<shifts, sickCalls, responses, notifications, auditLog, events, tasks,
                      clock>>
       /\ \A q \in Slots : reqs[q].kind \notin {"candidates", "none"} => reqs'[q] = reqs[q]

C19_RankingReadsOnly == [][C19_CandidatesStep]_vars

\* the route has answered its second call with a ranking while the coverage
\* process is between creating the offer and sending it
C19_Witness ==
  /\ last.kind = "candidates"
  /\ last.res = 200
  /\ Len(last.candidates) > 0
  /\ started = 3
  /\ tasks[1].pc = "c_sent"

(***************************************************************************)
(* C20: findCandidates fails with "Shift not found", returning nothing,    *)
(* when the shift does not exist or belongs to another organization than   *)
(* the one passed.                                                         *)
(***************************************************************************)
C20_RankNotFound ==
  (/\ call.fn = "findCandidates"
   /\ \/ call.shiftId \notin ShiftIds
      \/ ShiftOrg(call.shiftId) # call.organizationId)
    => (call.error = "Shift not found" /\ call.result = <<>>)

(***************************************************************************)
(* C21: when the coverage process a submit scheduled fails, the submit was *)
(* answered 201, the failure reaches no request, and the sick call is      *)
(* still PENDING.                                                          *)
(***************************************************************************)
C21_FailedStaysPending ==
  \A i \in 1..Len(sickCalls) : tasks[i].pc = "failed" => sickCalls[i].status = "PENDING"

C21_SubmitAnswered ==
  \A i \in SickCallIds :
    /\ (tasks[i].pc = "none" /\ tasks'[i].pc # "none")
         => (last'.kind = "submit" /\ last'.sickCallId = i /\ last'.res = 201)
    /\ (tasks[i].pc # "failed" /\ tasks'[i].pc = "failed") => UNCHANGED <<reqs, last>>

C21_FailureLeavesPending == [](C21_FailedStaysPending) /\ [][C21_SubmitAnswered]_vars

(***************************************************************************)
(* C22: a send that fails does not fail the call around it.  The step in   *)
(* which assignShift's send fails leaves the sick call, the shift and the  *)
(* audit entry as assignShift wrote them, emits shift-covered and answers  *)
(* 200; the step in which the offer fails leaves the sick call as it is    *)
(* (NOTIFYING unless an assignment has covered it), emits candidates-found *)
(* and ends the process.  Neither creates another notification: the        *)
(* failed offer stays the only offer of the sick call.                     *)
(***************************************************************************)
C22_FailedSendStep ==
  /\ \A r \in Slots :
       LET q == reqs[r]
           i == q.sickCallId
       IN  (/\ q.pc = "a_sent"
            /\ reqs'[r] # q
            /\ notifications'[q.notificationId].status = "FAILED")
             => /\ UNCHANGED <<sickCalls, shifts, auditLog, responses>>
                /\ sickCalls[i].coveredById # NoUser
                /\ AuditRows(i, IF q.kind = "assign" THEN "MANUAL_ASSIGNMENT"
                                ELSE "SHIFT_ACCEPTED") # {}
                /\ Len(notifications') = Len(notifications)
                /\ Cardinality(CoveredEvents(events', i))
                     = Cardinality(CoveredEvents(events, i)) + 1
                /\ EventRows(i, "notification-sent") = {k \in 1..Len(events') :
                     events'[k].sickCallId = i /\ events'[k].type = "notification-sent"}
                /\ reqs'[r] = NoRequest
                /\ last'.res = 200
  /\ \A i \in 1..Len(sickCalls) :
       (/\ tasks[i].pc = "c_sent"
        /\ tasks'[i] # tasks[i]
        /\ notifications'[tasks[i].notificationId].status = "FAILED")
         => /\ UNCHANGED <<sickCalls, shifts, auditLog, responses>>
            /\ Len(notifications') = Len(notifications)
            /\ events' = Append(events, Event("candidates-found", i, NoUser, 0,
                                              tasks[i].candidates))
            /\ tasks'[i].pc = "done"

C22_FailedOffer ==
  \A n \in 1..Len(notifications) :
    (notifications[n].kind = "offer" /\ notifications[n].status = "FAILED")
      => LET i == notifications[n].sickCallId
         IN  /\ Offers(i) = {n}
             /\ sickCalls[i].status \in {"NOTIFYING", "COVERED"}
             /\ sickCalls[i].coveredById = NoUser => sickCalls[i].status = "NOTIFYING"
             /\ tasks[i].pc = "done"
             /\ Cardinality(EventRows(i, "candidates-found")) = 1

C22_FailedSendCompletes == [][C22_FailedSendStep]_vars /\ [](C22_FailedOffer)

\* a manual assign was answered 200 although its confirmation failed; the
\* sick call and the shift are COVERED by the assigned staff, with the audit
\* entry and the shift-covered event
C22_Witness ==
  /\ last.kind = "assign"
  /\ last.res = 200
  /\ last.notificationId \in 1..Len(notifications)
  /\ notifications[last.notificationId].status = "FAILED"
  /\ sickCalls[last.sickCallId].status = "COVERED"
  /\ sickCalls[last.sickCallId].coveredById = last.staffId
  /\ shifts[sickCalls[last.sickCallId].shiftId].status = "COVERED"
  /\ shifts[sickCalls[last.sickCallId].shiftId].assignedToId = last.staffId
  /\ AuditRows(last.sickCallId, "MANUAL_ASSIGNMENT") # {}
  /\ CoveredEvents(events, last.sickCallId) # {}

(***************************************************************************)
(* C23: sendSMS creates the notification record in PENDING before the      *)
(* transport is tried; when the transport has answered the record is SENT  *)
(* and one notification-sent event is emitted, or the record is FAILED and *)
(* no event is emitted.  For a recipient that does not exist or has no     *)
(* phone number sendSMS returns null and creates no record.                *)
(***************************************************************************)
SentEvents(evs, n) ==
  {k \in 1..Len(evs) : evs[k].type = "notification-sent" /\ evs[k].notificationId = n}

\* what the step does in which a send ends whose record is n
C23_Finished(n) ==
  /\ Len(notifications') = Len(notifications)
  /\ notifications'[n].status \in {"SENT", "FAILED"}
  /\ Cardinality(SentEvents(events', n))
       = IF notifications'[n].status = "SENT" THEN Cardinality(SentEvents(events, n)) + 1
         ELSE Cardinality(SentEvents(events, n))

C23_SendSteps ==
  /\ Len(notifications') # Len(notifications)
       => /\ notifications' = Append(notifications, notifications'[Len(notifications')])
          /\ notifications'[Len(notifications')].status = "PENDING"
          /\ events' = events
  /\ send'.count # send.count
       => IF send'.recipientId \in UserIds
          THEN /\ send'.pc = "n_sent"
               /\ send'.notificationId = Len(notifications')
               /\ Len(notifications') = Len(notifications) + 1
               /\ notifications'[send'.notificationId].recipientId = send'.recipientId
               /\ notifications'[send'.notificationId].sickCallId = send'.sickCallId
          ELSE /\ send'.pc = "done"
               /\ send'.result = "null"
               /\ Len(notifications') = Len(notifications)
               /\ UNCHANGED <<events, reqs, last, tasks>>
  /\ (send.pc = "n_sent" /\ send'.pc = "done")
       => /\ C23_Finished(send.notificationId)
          /\ send'.result = IF notifications'[send.notificationId].status = "SENT"
                            THEN send.notificationId ELSE "null"
          /\ Len(events') - Len(events)
               = IF notifications'[send.notificationId].status = "SENT" THEN 1 ELSE 0
  /\ \A i \in 1..Len(sickCalls) :
       (tasks[i].pc = "c_sent" /\ tasks'[i].pc = "done") => C23_Finished(tasks[i].notificationId)

C23_Records ==
  \A n \in 1..Len(notifications) :
    /\ notifications[n].recipientId \in UserIds
    /\ Cardinality(SentEvents(events, n)) = IF notifications[n].status = "SENT" THEN 1 ELSE 0

C23_SendRecordsThenSends == [][C23_SendSteps]_vars /\ [](C23_Records)

\* sendSMS has returned null for a recipient without a phone number, after a
\* send that failed and one that succeeded; there are the two records of
\* those and the event of the one sent
C23_Witness ==
  /\ send.pc = "done"
  /\ send.recipientId = NoPhoneUser
  /\ send.result = "null"
  /\ Len(notifications) = 2
  /\ \E n, m \in 1..Len(notifications) :
       /\ notifications[n].status = "SENT"
       /\ notifications[m].status = "FAILED"
       /\ SentEvents(events, n) # {}
       /\ SentEvents(events, m) = {}

(***************************************************************************)
(* C24: the staff member who reported a sick call is not among the         *)
(* candidates its coverage process ranks and gets no offer for it.         *)
(***************************************************************************)
C24_ReporterNotOffered ==
  \A i \in 1..Len(sickCalls) :
    /\ \A k \in 1..Len(tasks[i].candidates) :
         tasks[i].candidates[k].userId # sickCalls[i].staffId
    /\ \A n \in Offers(i) : notifications[n].recipientId # sickCalls[i].staffId

(***************************************************************************)
(* C25: when no request is in flight, the staff covering a COVERED sick    *)
(* call is the staff assigned to its shift.                                *)
(***************************************************************************)
C25_CoveredByTheAssignee ==
  (\A r \in Slots : reqs[r].pc = "idle")
    => \A i \in 1..Len(sickCalls) :
         sickCalls[i].status = "COVERED"
           => sickCalls[i].coveredById = shifts[sickCalls[i].shiftId].assignedToId

(***************************************************************************)
(* C26: a respond request goes through assignShift only for a caller who   *)
(* has an offer notification for the sick call.                            *)
(***************************************************************************)
C26_AcceptNeedsOffer ==
  \A r \in Slots :
    (reqs[r].kind = "respond" /\ reqs[r].pc \in {"a_shift", "a_audit", "a_sms", "a_sent"})
      => \E n \in Offers(reqs[r].sickCallId) : notifications[n].recipientId = reqs[r].userId

(***************************************************************************)
(* C27: a respond or assign request that changes a sick call or a shift    *)
(* comes from a user of the sick call's organization, and an assign makes  *)
(* only a user of that organization the covering staff.                    *)
(***************************************************************************)
C27_Step ==
  \A r \in Slots :
    (/\ reqs[r].kind \in {"respond", "assign"}
     /\ reqs'[r] # reqs[r]
     /\ (sickCalls' # sickCalls \/ shifts' # shifts))
      => /\ Users[reqs[r].userId].organizationId
              = sickCalls[reqs[r].sickCallId].organizationId
         /\ Users[reqs[r].staffId].organizationId
              = sickCalls[reqs[r].sickCallId].organizationId

C27_OwnOrganizationOnly == [][C27_Step]_vars

(***************************************************************************)
(* C28: a sick call has a covering staff member exactly when its status is *)
(* COVERED.                                                                *)
(***************************************************************************)
C28_CoveredByIffCovered ==
  \A i \in 1..Len(sickCalls) :
    sickCalls[i].coveredById # NoUser <=> sickCalls[i].status = "COVERED"

(***************************************************************************)
(* C29: a step changes the status of at most one notification, the one of  *)
(* the send that takes the step, and a FAILED notification stays FAILED.   *)
(***************************************************************************)
C29_Step ==
  /\ Cardinality({n \in 1..Len(notifications) :
                    notifications'[n].status # notifications[n].status}) <= 1
  /\ \A n \in 1..Len(notifications) :
       notifications[n].status = "FAILED" => notifications'[n].status = "FAILED"

C29_FailureMarksOwnRecord == [][C29_Step]_vars

(***************************************************************************)
(* C30: the coverage process scheduled by a submit ends, when no call of   *)
(* the store or of the ranking fails; it takes the sick call out of        *)
(* PENDING, to UNFILLED with no offer or to NOTIFYING with exactly one     *)
(* offer notification, and does nothing after it has ended.                *)
(***************************************************************************)
C30_Outcome(i) ==
  \/ sickCalls[i].status = "UNFILLED" /\ Offers(i) = {}
  \/ sickCalls[i].status = "NOTIFYING" /\ Cardinality(Offers(i)) = 1

C30_AtMostOneOffer ==
  \A i \in 1..Len(sickCalls) :
    /\ Cardinality(Offers(i)) <= 1
    /\ tasks[i].pc \notin {"none", "scheduled"} => sickCalls[i].status # "PENDING"
    /\ tasks[i].pc = "done" => C30_Outcome(i)

C30_Ended ==
  \A i \in SickCallIds :
    tasks[i].pc = "done" => (tasks'[i] = tasks[i] /\ UNCHANGED <<sickCalls, notifications>>)

C30_CoverageEnds ==
  /\ [](C30_AtMostOneOffer)
  /\ [][C30_Ended]_vars
  /\ \A i \in SickCallIds : (tasks[i].pc = "scheduled") ~> (tasks[i].pc = "done")

\* the coverage process has ended with its one offer made and the sick call
\* NOTIFYING, the candidates route having been answered while it ran
C30_Witness ==
  /\ tasks[1].pc = "done"
  /\ sickCalls[1].status = "NOTIFYING"
  /\ Cardinality(Offers(1)) = 1
  /\ last.kind = "candidates"
  /\ last.res = 200

====
